---------------------------- MODULE Spec2Model ----------------------------
(***************************************************************************)
(* LZMA2 decoder of lzma-cpp (Lzma2Decoder.hpp, LzmaDecoderCore.hpp).      *)
(*                                                                         *)
(* The decoder objects are records, their methods are operators that map   *)
(* an object (and the arguments) to the object after the call.  A thrown   *)
(* BadStream is the field exc of the result; the state a method has        *)
(* already written when it throws stays written, as in C++.                *)
(*                                                                         *)
(* 32-bit unsigned values that can exceed 2^31 - 1 (range, code, decoded   *)
(* distances, dicSize) are pairs <<hi, lo>> of 16-bit halves, with the     *)
(* arithmetic of the source taken modulo 2^32.                             *)
(***************************************************************************)
EXTENDS Integers, Sequences, FiniteSets, TLC

(***************************************************************************)
(* Bit arithmetic on naturals                                              *)
(***************************************************************************)
RECURSIVE Pow2(_)
Pow2(n) == IF n = 0 THEN 1 ELSE 2 * Pow2(n - 1)

Shl(x, n) == x * Pow2(n)
Shr(x, n) == x \div Pow2(n)

RECURSIVE BitAnd(_, _)
BitAnd(a, b) ==
    IF a = 0 \/ b = 0 THEN 0
    ELSE (IF a % 2 = 1 /\ b % 2 = 1 THEN 1 ELSE 0) + 2 * BitAnd(a \div 2, b \div 2)

RECURSIVE BitOr(_, _)
BitOr(a, b) ==
    IF a = 0 THEN b
    ELSE IF b = 0 THEN a
    ELSE (IF a % 2 = 1 \/ b % 2 = 1 THEN 1 ELSE 0) + 2 * BitOr(a \div 2, b \div 2)

Min(a, b) == IF a < b THEN a ELSE b

(***************************************************************************)
(* UInt32 as <<hi, lo>>, both halves in 0..65535                           *)
(***************************************************************************)
W16 == 256 * 256
W15 == 128 * 256

U32(n)     == <<n \div W16, n % W16>>          \* n in 0 .. 2^31 - 1
U32Max     == <<65535, 65535>>                 \* 0xFFFFFFFF
U32Zero    == <<0, 0>>
FitsInt(x) == x[1] < W15
ToInt(x)   == x[1] * W16 + x[2]                \* only where FitsInt(x)

U32Lt(a, b) == a[1] < b[1] \/ (a[1] = b[1] /\ a[2] < b[2])
U32Le(a, b) == ~U32Lt(b, a)

U32Add(a, b) ==
    LET lo == a[2] + b[2]
        hi == a[1] + b[1] + (lo \div W16)
    IN  <<hi % W16, lo % W16>>

U32Sub(a, b) ==
    LET lo == a[2] - b[2]
        hi == a[1] - b[1] - (IF lo < 0 THEN 1 ELSE 0)
    IN  <<(hi + W16) % W16, (lo + W16) % W16>>

\* x << 8, the top byte falls off
U32Shl8(a) == <<(a[1] % 256) * 256 + (a[2] \div 256), (a[2] % 256) * 256>>
\* x << 1
U32Shl1(a) == <<(a[1] % W15) * 2 + (a[2] \div W15), (a[2] % W15) * 2>>
\* x << 4
U32Shl4(a) == <<(a[1] % 4096) * 16 + (a[2] \div 4096), (a[2] % 4096) * 16>>
\* x >> 1
U32Shr1(a) == <<a[1] \div 2, (a[1] % 2) * W15 + (a[2] \div 2)>>
\* x >> 11, a 21-bit number
U32Shr11(a) == a[1] * 32 + (a[2] \div 2048)
\* x >> 31
U32Bit31(a) == a[1] \div W15
\* x | b for a value b < 2^16 whose bits are clear in x's low half
U32OrLow(a, b) == <<a[1], BitOr(a[2], b)>>
\* (21-bit r) * p for p < 2^15, modulo 2^32
U32Mul(r, p) ==
    LET rl == r % W16
        rh == r \div W16
        plo == rl * p
    IN  <<(rh * p + (plo \div W16)) % W16, plo % W16>>


(***************************************************************************)
(* Constants of DecoderCore                                                *)
(***************************************************************************)
kNumTopBits == 24
kTopValue == <<256, 0>>                        \* 1u << kNumTopBits
kNumBitModelTotalBits == 11
kBitModelTotal == Pow2(kNumBitModelTotalBits)
kNumMoveBits == 5
kNumPosBitsMax == 4
kNumPosStatesMax == Pow2(kNumPosBitsMax)
kLenNumLowBits == 3
kLenNumLowSymbols == Pow2(kLenNumLowBits)
kLenNumMidBits == 3
kLenNumMidSymbols == Pow2(kLenNumMidBits)
kLenNumHighBits == 8
kLenNumHighSymbols == Pow2(kLenNumHighBits)
LenChoice == 0
LenChoice2 == LenChoice + 1
LenLow == LenChoice2 + 1
LenMid == LenLow + Shl(kNumPosStatesMax, kLenNumLowBits)
LenHigh == LenMid + Shl(kNumPosStatesMax, kLenNumMidBits)
kNumLenProbs == LenHigh + kLenNumHighSymbols
kNumStates == 12
kNumLitStates == 7
kStartPosModelIndex == 4
kEndPosModelIndex == 14
kNumFullDistances == Pow2(kEndPosModelIndex \div 2)
kNumPosSlotBits == 6
kNumLenToPosStates == 4
kNumAlignBits == 4
kAlignTableSize == Pow2(kNumAlignBits)
kMatchMinLen == 2
kMatchSpecLenStart == kMatchMinLen + kLenNumLowSymbols + kLenNumMidSymbols + kLenNumHighSymbols
IsMatch == 0
IsRep == IsMatch + Shl(kNumStates, kNumPosBitsMax)
IsRepG0 == IsRep + kNumStates
IsRepG1 == IsRepG0 + kNumStates
IsRepG2 == IsRepG1 + kNumStates
IsRep0Long == IsRepG2 + kNumStates
PosSlot == IsRep0Long + Shl(kNumStates, kNumPosBitsMax)
SpecPos == PosSlot + Shl(kNumLenToPosStates, kNumPosSlotBits)
Align == SpecPos + kNumFullDistances - kEndPosModelIndex
LenCoder == Align + kAlignTableSize
RepLenCoder == LenCoder + kNumLenProbs
Literal == RepLenCoder + kNumLenProbs
LZMA_LIT_SIZE == 768
LZMA_REQUIRED_INPUT_MAX == 20
RC_INIT_SIZE == 5
calcProbSize(lcPlusLp) == 1846 + Shl(LZMA_LIT_SIZE, lcPlusLp)

\* enum class Status, enum class FinishMode, enum Dummy
StatusValues == {"NotSpecified", "FinishedWithMark", "NotFinished", "NeedsMoreInput",
                 "MaybeFinishedWithoutMark"}
FinishModes == {"Any", "End"}
DummyValues == {"DUMMY_ERROR", "DUMMY_LIT", "DUMMY_MATCH", "DUMMY_REP"}

(***************************************************************************)
(* Memory.  The dictionary m_dic.mem is a sequence of m_dic.size bytes,    *)
(* element i + 1 holding mem[i].  A byte nobody has written yet is NoByte. *)
(* An access outside the buffer is undefined behaviour: it is recorded in  *)
(* the object's field ub and the value read is then 0.  The probability    *)
(* array m_probs is kept as the set of the counters that differ from the   *)
(* value InitStateReal gives them: a function from index to counter, a     *)
(* missing index standing for kBitModelTotal >> 1.                         *)
(***************************************************************************)
NoByte == -1
InMem(size, i) == 0 <= i /\ i < size
MemAt(mem, size, i) == IF InMem(size, i) /\ mem[i + 1] # NoByte THEN mem[i + 1] ELSE 0
MemRdUb(mem, size, i, ub) ==
    IF ub # "none" THEN ub
    ELSE IF ~InMem(size, i) THEN "dic_out_of_bounds"
    ELSE IF mem[i + 1] = NoByte THEN "dic_unwritten_read"
    ELSE "none"
MemWrUb(size, i, ub) ==
    IF ub # "none" THEN ub ELSE IF ~InMem(size, i) THEN "dic_out_of_bounds" ELSE "none"
MemPut(mem, size, i, b) == IF InMem(size, i) THEN [mem EXCEPT ![i + 1] = b] ELSE mem

ProbAt(probs, i) == IF i \in DOMAIN probs THEN probs[i] ELSE kBitModelTotal \div 2
ProbPut(probs, i, v) == IF i \in DOMAIN probs THEN [probs EXCEPT ![i] = v] ELSE probs @@ (i :> v)
NoProbs == [j \in {} |-> 0]

\* src[i] for a 0-based index i into the bytes a call may read
SrcAt(inp, i) == IF 0 <= i /\ i < Len(inp) THEN inp[i + 1] ELSE 0
SrcUb(inp, i, ub) ==
    IF ub # "none" THEN ub ELSE IF 0 <= i /\ i < Len(inp) THEN "none" ELSE "src_overread"

(***************************************************************************)
(* DecoderCore: the object right after Decoder2's constructor has set      *)
(* m_properties.  The fields the constructors leave unset hold 0 here; the *)
(* code writes each of them before it reads it.                            *)
(***************************************************************************)
NewCore(dicSize, bufSize) ==
    [ m_dic |-> [mem |-> [i \in 1..bufSize |-> NoByte], size |-> bufSize, pos |-> 0],
      m_properties |-> [lc |-> 4, lp |-> 0, pb |-> 0, dicSize |-> dicSize],
      m_probs |-> NoProbs,
      m_range |-> U32Zero, m_code |-> U32Zero,
      processedPos |-> 0, checkDicSize |-> U32Zero,
      state |-> 0, reps |-> <<0, 0, 0, 0>>, remainLen |-> 0,
      needFlush |-> FALSE, needInitState |-> FALSE,
      tempBufSize |-> 0, tempBuf |-> <<>>,
      buf |-> 0,
      ub |-> "none" ]

InitDicAndState(p, initDic, initState) ==
    [p EXCEPT !.needFlush = TRUE,
              !.remainLen = 0,
              !.tempBufSize = 0,
              !.tempBuf = <<>>,
              !.processedPos = IF initDic THEN 0 ELSE @,
              !.checkDicSize = IF initDic THEN U32Zero ELSE @,
              !.needInitState = IF initDic \/ initState THEN TRUE ELSE @]

\* a bug to test the claims with: the bookkeeping without the memcpy
UpdateWithoutCopy(p, src, size) ==
    [p EXCEPT !.m_dic.pos = @ + size, !.processedPos = @ + size]

\* memcpy(m_dic.mem + m_dic.pos, src, size) and the bookkeeping after it
UpdateWithUncompressed(p, src, size) ==
    LET dic == p.m_dic
        mem2 == [i \in 1..dic.size |->
                    IF dic.pos < i /\ i <= dic.pos + size THEN src[i - dic.pos]
                    ELSE dic.mem[i]]
        over == dic.pos + size > dic.size
        full == p.checkDicSize = U32Zero
                /\ U32Le(U32Sub(p.m_properties.dicSize, U32(p.processedPos)), U32(size))
    IN  [p EXCEPT !.m_dic.mem = mem2,
                  !.m_dic.pos = @ + size,
                  !.checkDicSize = IF full THEN p.m_properties.dicSize ELSE @,
                  !.processedPos = @ + size,
                  !.ub = IF @ = "none" /\ over THEN "dic_out_of_bounds" ELSE @]

InitStateReal(p) ==
    [p EXCEPT !.m_probs = NoProbs,
              !.reps = <<1, 1, 1, 1>>,
              !.state = 0,
              !.needInitState = FALSE]

\* a bug to test the claims with: code is read from the first four bytes
InitRcFromFirst(p, data) ==
    [p EXCEPT !.m_code = <<data[1] * 256 + data[2], data[3] * 256 + data[4]>>,
              !.m_range = U32Max,
              !.needFlush = FALSE]

InitRc(p, data) ==
    [p EXCEPT !.m_code = <<data[2] * 256 + data[3], data[4] * 256 + data[5]>>,
              !.m_range = U32Max,
              !.needFlush = FALSE]


(***************************************************************************)
(* Range decoder: the lambdas of DecodeReal.  r is the frame of locals     *)
(* (range, code, buf, ttt, bound, the probability array, ...), inp the     *)
(* bytes buf points into, x the index of the counter in m_probs.  A value  *)
(* that a step computes and the next steps read is handed on as the        *)
(* argument of the operator that models the next steps.                    *)
(***************************************************************************)
\* a bug to test the claims with: the range is shifted once it is below 2^16
kTopValueLate == <<1, 0>>
NORMALIZE_Late(r, inp) ==
    IF U32Lt(r.range, kTopValueLate)
    THEN [r EXCEPT !.range = U32Shl8(@),
                   !.code = U32OrLow(U32Shl8(@), SrcAt(inp, r.buf)),
                   !.buf = @ + 1,
                   !.ub = SrcUb(inp, r.buf, @)]
    ELSE r

NORMALIZE(r, inp) ==
    IF U32Lt(r.range, kTopValue)
    THEN [r EXCEPT !.range = U32Shl8(@),
                   !.code = U32OrLow(U32Shl8(@), SrcAt(inp, r.buf)),
                   !.buf = @ + 1,
                   !.ub = SrcUb(inp, r.buf, @)]
    ELSE r

\* bound = (range >> kNumBitModelTotalBits) * ttt
SetBound(n) == [n EXCEPT !.bound = U32Mul(U32Shr11(n.range), n.ttt)]

\* isBit0(x) up to its return: ttt = *x; NORMALIZE(); bound = ...
isBit0(r, inp, x) ==
    SetBound([NORMALIZE(r, inp) EXCEPT
                 !.ttt = ProbAt(r.probs, x),
                 !.ub = IF @ = "none" /\ ~(0 <= x /\ x < calcProbSize(4))
                        THEN "probs_out_of_bounds" ELSE @])

UPDATE_0(r, x) ==
    [r EXCEPT !.range = r.bound,
              !.probs = ProbPut(@, x, r.ttt + Shr(kBitModelTotal - r.ttt, kNumMoveBits)),
              !.bit = 0]

\* a bug to test the claims with: the bit 1 takes the whole counter off
UPDATE_1Clears(r, x) ==
    [r EXCEPT !.range = U32Sub(@, r.bound),
              !.code = U32Sub(@, r.bound),
              !.probs = ProbPut(@, x, r.ttt - Shr(r.ttt, 0)),
              !.bit = 1]

UPDATE_1(r, x) ==
    [r EXCEPT !.range = U32Sub(@, r.bound),
              !.code = U32Sub(@, r.bound),
              !.probs = ProbPut(@, x, r.ttt - Shr(r.ttt, kNumMoveBits)),
              !.bit = 1]

\* GET_BIT2 on the frame b that isBit0(x) has left: the test code < bound,
\* then UPDATE_0 or UPDATE_1; the bit is left in r.bit
GET_BIT2(b, x) == IF U32Lt(b.code, b.bound) THEN UPDATE_0(b, x) ELSE UPDATE_1(b, x)

GET_BIT(r, inp, x) == GET_BIT2(isBit0(r, inp, x), x)

\* i = (i + i) + bit, i being r.sym
TreeStep(g) == [g EXCEPT !.sym = (@ + @) + g.bit]

\* TREE_GET_BIT(probs, i): GET_BIT(probs + i, i)
TREE_GET_BIT(r, inp, probs) == TreeStep(GET_BIT(r, inp, probs + r.sym))

\* do TREE_GET_BIT(probs, i) while (i < limit); i -= limit.  The loop is
\* entered with i = 1 < limit, so that the test comes first here.
RECURSIVE TreeLoop(_, _, _, _)
TreeLoop(r, inp, probs, limit) ==
    IF r.sym < limit THEN TreeLoop(TREE_GET_BIT(r, inp, probs), inp, probs, limit)
    ELSE [r EXCEPT !.sym = @ - limit]

\* TREE_DECODE(probs, limit, i): the decoded i is left in r.sym
TREE_DECODE(r, inp, probs, limit) == TreeLoop([r EXCEPT !.sym = 1], inp, probs, limit)
TREE_6_DECODE(r, inp, probs) == TREE_DECODE(r, inp, probs, 64)

\* the literal of a state < kNumLitStates: do GET_BIT(prob + symbol, symbol)
\* while (symbol < 0x100), entered with symbol = 1
RECURSIVE LitLoop(_, _, _)
LitLoop(r, inp, prob) ==
    IF r.sym < 256 THEN LitLoop(TREE_GET_BIT(r, inp, prob), inp, prob) ELSE r

\* bit = ((matchByte << 1) & offs), offs being 0x100 or 0
MatchedBit(r) == IF r.offs = 256 THEN (((2 * r.matchByte) \div 256) % 2) * 256 ELSE 0

\* matchByte <<= 1; symbol = (symbol + symbol) + the bit; offs &= ~bit or offs &= bit
MatchedStep(g, bit) ==
    [g EXCEPT !.sym = (@ + @) + g.bit,
              !.matchByte = 2 * @,
              !.offs = IF g.bit = 0 THEN (IF bit = 0 THEN @ ELSE 0)
                       ELSE (IF bit = 0 THEN 0 ELSE @)]

\* the literal after a match: the bits of matchByte choose the counters
RECURSIVE MatchedLitLoop(_, _, _)
MatchedLitLoop(r, inp, prob) ==
    IF r.sym < 256
    THEN MatchedLitLoop(MatchedStep(GET_BIT(r, inp, prob + r.offs + MatchedBit(r) + r.sym),
                                    MatchedBit(r)),
                        inp, prob)
    ELSE r


(***************************************************************************)
(* DecodeReal, one LZMA symbol.  L is the frame of DecodeReal's locals:    *)
(* state, rep0..rep3, dicPos, processedPos, len, buf, range, code, with    *)
(* the two arrays the function writes in place (probs, mem), the flag exc  *)
(* (BadStream thrown) and brk (the break at the end-of-stream marker).     *)
(* e holds what the function only reads: inp, limit, pb, lp, lc,           *)
(* dicBufSize, checkDicSize.                                               *)
(***************************************************************************)
RepIdx(L, e) == (L.dicPos - L.rep0) + (IF L.dicPos < L.rep0 THEN e.dicBufSize ELSE 0)

\* dic[dicPos++] = (Byte)symbol; processedPos++
LitStore(d, e) ==
    [d EXCEPT !.mem = MemPut(@, e.dicBufSize, d.dicPos, d.sym % 256),
              !.ub = MemWrUb(e.dicBufSize, d.dicPos, @),
              !.dicPos = @ + 1,
              !.processedPos = @ + 1]

\* a bug to test the claims with: a literal behind a match takes 3 off the
\* state, whatever the state
SymLiteralMinus3(a, e) ==
    LET ctx == e.checkDicSize # U32Zero \/ a.processedPos # 0
        prevIdx == (IF a.dicPos = 0 THEN e.dicBufSize ELSE a.dicPos) - 1
        prob == Literal +
                (IF ctx
                 THEN LZMA_LIT_SIZE * (Shl(a.processedPos % Pow2(e.lp), e.lc)
                                       + Shr(MemAt(a.mem, e.dicBufSize, prevIdx), 8 - e.lc))
                 ELSE 0)
        ub1 == IF ctx THEN MemRdUb(a.mem, e.dicBufSize, prevIdx, a.ub) ELSE a.ub
        mIdx == RepIdx(a, e)
    IN  IF a.state < kNumLitStates
        THEN LitStore(LitLoop([a EXCEPT !.state = @ - (IF @ < 4 THEN @ ELSE 3),
                                        !.ub = ub1,
                                        !.sym = 1],
                              e.inp, prob),
                      e)
        ELSE LitStore(MatchedLitLoop([a EXCEPT !.state = @ - 3,
                                               !.ub = MemRdUb(a.mem, e.dicBufSize, mIdx, ub1),
                                               !.sym = 1,
                                               !.matchByte = MemAt(a.mem, e.dicBufSize, mIdx),
                                               !.offs = 256],
                                     e.inp, prob),
                      e)

SymLiteral(a, e) ==
    LET ctx == e.checkDicSize # U32Zero \/ a.processedPos # 0
        prevIdx == (IF a.dicPos = 0 THEN e.dicBufSize ELSE a.dicPos) - 1
        prob == Literal +
                (IF ctx
                 THEN LZMA_LIT_SIZE * (Shl(a.processedPos % Pow2(e.lp), e.lc)
                                       + Shr(MemAt(a.mem, e.dicBufSize, prevIdx), 8 - e.lc))
                 ELSE 0)
        ub1 == IF ctx THEN MemRdUb(a.mem, e.dicBufSize, prevIdx, a.ub) ELSE a.ub
        mIdx == RepIdx(a, e)
    IN  IF a.state < kNumLitStates
        THEN LitStore(LitLoop([a EXCEPT !.state = @ - (IF @ < 4 THEN @ ELSE 3),
                                        !.ub = ub1,
                                        !.sym = 1],
                              e.inp, prob),
                      e)
        ELSE LitStore(MatchedLitLoop([a EXCEPT !.state = @ - (IF @ < 10 THEN 3 ELSE 6),
                                               !.ub = MemRdUb(a.mem, e.dicBufSize, mIdx, ub1),
                                               !.sym = 1,
                                               !.matchByte = MemAt(a.mem, e.dicBufSize, mIdx),
                                               !.offs = 256],
                                     e.inp, prob),
                      e)

\* TREE_DECODE(probLen, limit, len); len += offset
LenSet(t, offset) == [t EXCEPT !.len = t.sym + offset]
LenTree(g, e, probLen, limit, offset) == LenSet(TREE_DECODE(g, e.inp, probLen, limit), offset)

\* after the bit of LenChoice2
LenChoice2Bit(h, e, prob, posState) ==
    IF h.bit = 0
    THEN LenTree(h, e, prob + LenMid + Shl(posState, kLenNumMidBits),
                 Pow2(kLenNumMidBits), kLenNumLowSymbols)
    ELSE LenTree(h, e, prob + LenHigh, Pow2(kLenNumHighBits),
                 kLenNumLowSymbols + kLenNumMidSymbols)

\* after the bit of LenChoice
LenChoiceBit(g, e, prob, posState) ==
    IF g.bit = 0
    THEN LenTree(g, e, prob + LenLow + Shl(posState, kLenNumLowBits),
                 Pow2(kLenNumLowBits), 0)
    ELSE LenChoice2Bit(GET_BIT(g, e.inp, prob + LenChoice2), e, prob, posState)

\* the length of a match or rep: len is left in r.len
LenDecode(r, e, prob, posState) ==
    LenChoiceBit(GET_BIT(r, e.inp, prob + LenChoice), e, prob, posState)

\* GET_BIT2(prob + i, i, ; , distance |= mask); mask <<= 1
ReverseStep(g) ==
    [g EXCEPT !.sym = (@ + @) + g.bit,
              !.dist = IF g.bit = 1 THEN U32OrLow(@, g.mask) ELSE @,
              !.mask = 2 * @]

\* mask = 1; i = 1; do the step above while (--numDirectBits != 0), and the
\* four steps on Align written out in the source (masks 1, 2, 4, 8).  The
\* loop is entered with numDirectBits > 0; the test of r.exc, FALSE in this
\* loop, has each turn evaluated before the next.
RECURSIVE ReverseBits(_, _, _, _)
ReverseBits(r, inp, prob, numDirectBits) ==
    IF r.exc \/ numDirectBits = 0 THEN r
    ELSE ReverseBits(ReverseStep(GET_BIT(r, inp, prob + r.sym)), inp, prob,
                     numDirectBits - 1)

\* range >>= 1; t = 0 - ((code -= range) >> 31); code += range & t;
\* distance = (distance << 1) + (t + 1), on the frame NORMALIZE has left
DirectBit(n) ==
    LET range1 == U32Shr1(n.range)
        code1 == U32Sub(n.code, range1)
        neg == U32Bit31(code1)
    IN  [n EXCEPT !.range = range1,
                  !.code = IF neg = 1 THEN U32Add(code1, range1) ELSE code1,
                  !.dist = U32Add(U32Shl1(@), U32(1 - neg))]

\* posSlot >= kEndPosModelIndex: do the direct bit while (--numDirectBits != 0),
\* entered with numDirectBits > 0
RECURSIVE DirectBitsLoop(_, _, _)
DirectBitsLoop(r, inp, numDirectBits) ==
    IF r.exc \/ numDirectBits = 0 THEN r
    ELSE DirectBitsLoop(DirectBit(NORMALIZE(r, inp)), inp, numDirectBits - 1)

\* the distance once posSlot is decoded (s.sym)
DistBits(s, e) ==
    LET posSlot == s.sym
        numDirectBits == Shr(posSlot, 1) - 1
        base == BitOr(2, posSlot % 2)
        shifted == Shl(base, numDirectBits)
    IN  IF posSlot < kStartPosModelIndex
        THEN [s EXCEPT !.posSlot = posSlot, !.dist = U32(posSlot)]
        ELSE IF posSlot < kEndPosModelIndex
        THEN ReverseBits([s EXCEPT !.posSlot = posSlot, !.dist = U32(shifted),
                                   !.sym = 1, !.mask = 1],
                         e.inp, SpecPos + shifted - posSlot - 1, numDirectBits)
        ELSE ReverseBits([DirectBitsLoop([s EXCEPT !.posSlot = posSlot, !.dist = U32(base)],
                                         e.inp, numDirectBits - kNumAlignBits)
                             EXCEPT !.dist = U32Shl4(@), !.sym = 1, !.mask = 1],
                         e.inp, Align, kNumAlignBits)

\* the distance of a simple match: the decoded value is left in r.dist
DistDecode(r, e) ==
    DistBits(TREE_6_DECODE(r, e.inp,
                           PosSlot + Shl(IF r.len < kNumLenToPosStates THEN r.len
                                         ELSE kNumLenToPosStates - 1,
                                         kNumPosSlotBits)),
             e)


\* a bug to test the claims with: the bytes are copied in descending order
RECURSIVE CopyContiguousDescending(_, _, _, _, _)
CopyContiguousDescending(L, e, dest, src, n) ==
    LET L1 == [L EXCEPT !.mem = MemPut(@, e.dicBufSize, dest + n - 1,
                                       MemAt(L.mem, e.dicBufSize, dest + n - 1 + src)),
                        !.ub = MemWrUb(e.dicBufSize, dest + n - 1,
                                       MemRdUb(L.mem, e.dicBufSize, dest + n - 1 + src, @))]
    IN  IF L1.exc \/ n - 1 = 0 THEN L1 ELSE CopyContiguousDescending(L1, e, dest, src, n - 1)

\* *(dest) = *(dest + src), ascending, n >= 1 bytes from dicPos on
RECURSIVE CopyContiguous(_, _, _, _, _)
CopyContiguous(L, e, dest, src, n) ==
    LET L1 == [L EXCEPT !.mem = MemPut(@, e.dicBufSize, dest, MemAt(L.mem, e.dicBufSize, dest + src)),
                        !.ub = MemWrUb(e.dicBufSize, dest,
                                       MemRdUb(L.mem, e.dicBufSize, dest + src, @))]
    IN  IF L1.exc \/ n - 1 = 0 THEN L1 ELSE CopyContiguous(L1, e, dest + 1, src, n - 1)

\* dic[dicPos++] = dic[pos]; if (++pos == dicBufSize) pos = 0;
RECURSIVE CopyWrapping(_, _, _, _, _)
CopyWrapping(L, e, dicPos, pos, curLen) ==
    LET L1 == [L EXCEPT !.mem = MemPut(@, e.dicBufSize, dicPos, MemAt(L.mem, e.dicBufSize, pos)),
                        !.ub = MemWrUb(e.dicBufSize, dicPos,
                                       MemRdUb(L.mem, e.dicBufSize, pos, @)),
                        !.dicPos = dicPos + 1]
        pos1 == IF pos + 1 = e.dicBufSize THEN 0 ELSE pos + 1
    IN  IF L1.exc \/ curLen - 1 = 0 THEN L1
        ELSE CopyWrapping(L1, e, dicPos + 1, pos1, curLen - 1)

\* len += kMatchMinLen and the copy of min(len, limit - dicPos) bytes
MatchCopy(r, e) ==
    LET len == r.len + kMatchMinLen
        rem == e.limit - r.dicPos
        curLen == IF rem < len THEN rem ELSE len
        pos == RepIdx(r, e)
        r1 == [r EXCEPT !.processedPos = @ + curLen, !.len = len - curLen]
    IN  IF e.limit = r.dicPos THEN [r EXCEPT !.len = len, !.exc = TRUE]
        ELSE IF pos + curLen <= e.dicBufSize
        THEN [CopyContiguous(r1, e, r.dicPos, pos - r.dicPos, curLen)
                 EXCEPT !.dicPos = r.dicPos + curLen]
        ELSE CopyWrapping(r1, e, r.dicPos, pos, curLen)

\* a bug to test the claims with: the distance is not checked
RotateRepsNoCheck(d, e) ==
    IF d.posSlot >= kEndPosModelIndex /\ d.dist = U32Max
    THEN [d EXCEPT !.len = @ + kMatchSpecLenStart, !.state = @ - kNumStates,
                   !.brk = TRUE]
    ELSE [d EXCEPT !.rep3 = d.rep2, !.rep2 = d.rep1, !.rep1 = d.rep0,
                   !.rep0 = ToInt(d.dist) + 1,
                   !.state = IF @ < kNumStates + kNumLitStates
                             THEN kNumLitStates ELSE kNumLitStates + 3]

\* a simple match once its distance is decoded (d.dist): the end mark, the
\* rotation of the reps, the range check
RotateReps(d, e) ==
    IF d.posSlot >= kEndPosModelIndex /\ d.dist = U32Max
    THEN [d EXCEPT !.len = @ + kMatchSpecLenStart, !.state = @ - kNumStates,
                   !.brk = TRUE]
    ELSE IF (IF e.checkDicSize = U32Zero
             THEN U32Le(U32(d.processedPos), d.dist)
             ELSE U32Le(e.checkDicSize, d.dist))
    THEN [d EXCEPT !.exc = TRUE]
    ELSE [d EXCEPT !.rep3 = d.rep2, !.rep2 = d.rep1, !.rep1 = d.rep0,
                   !.rep0 = ToInt(d.dist) + 1,
                   !.state = IF @ < kNumStates + kNumLitStates
                             THEN kNumLitStates ELSE kNumLitStates + 3]

\* a simple match: the distance, then the above
SymMatchDistance(r, e) == RotateReps(DistDecode(r, e), e)

\* state = state < kNumLitStates ? 8 : 11
RepState(state) == IF state < kNumLitStates THEN 8 ELSE 11

\* a bug to test the claims with: a rep of rep3 does not shift the others
RepG2BitNoShift(g2) ==
    IF g2.bit = 0
    THEN [g2 EXCEPT !.rep2 = g2.rep1, !.rep1 = g2.rep0, !.rep0 = g2.rep2,
                    !.state = RepState(@)]
    ELSE [g2 EXCEPT !.rep0 = g2.rep3, !.state = RepState(@)]

\* after the bit of IsRepG2
RepG2Bit(g2) ==
    IF g2.bit = 0
    THEN [g2 EXCEPT !.rep2 = g2.rep1, !.rep1 = g2.rep0, !.rep0 = g2.rep2,
                    !.state = RepState(@)]
    ELSE [g2 EXCEPT !.rep3 = g2.rep2, !.rep2 = g2.rep1, !.rep1 = g2.rep0,
                    !.rep0 = g2.rep3, !.state = RepState(@)]

\* after the bit of IsRepG1
RepG1Bit(g1, e) ==
    IF g1.bit = 0
    THEN [g1 EXCEPT !.rep1 = g1.rep0, !.rep0 = g1.rep1, !.state = RepState(@)]
    ELSE RepG2Bit(GET_BIT(g1, e.inp, IsRepG2 + g1.state))

\* a bug to test the claims with: a short rep behind a match leaves the
\* state 10
Rep0LongBitState10(d, e) ==
    IF d.bit = 0
    THEN [d EXCEPT !.mem = MemPut(@, e.dicBufSize, d.dicPos,
                                  MemAt(d.mem, e.dicBufSize, RepIdx(d, e))),
                   !.ub = MemWrUb(e.dicBufSize, d.dicPos,
                                  MemRdUb(d.mem, e.dicBufSize, RepIdx(d, e), @)),
                   !.dicPos = @ + 1,
                   !.processedPos = @ + 1,
                   !.state = IF @ < kNumLitStates THEN 9 ELSE 10,
                   !.short = TRUE]
    ELSE [d EXCEPT !.state = RepState(@)]

\* after the bit of IsRep0Long: the short rep, or a rep of the distance rep0
Rep0LongBit(d, e) ==
    IF d.bit = 0
    THEN [d EXCEPT !.mem = MemPut(@, e.dicBufSize, d.dicPos,
                                  MemAt(d.mem, e.dicBufSize, RepIdx(d, e))),
                   !.ub = MemWrUb(e.dicBufSize, d.dicPos,
                                  MemRdUb(d.mem, e.dicBufSize, RepIdx(d, e), @)),
                   !.dicPos = @ + 1,
                   !.processedPos = @ + 1,
                   !.state = IF @ < kNumLitStates THEN 9 ELSE 11,
                   !.short = TRUE]
    ELSE [d EXCEPT !.state = RepState(@)]

\* after the bit of IsRepG0
RepG0Bit(c, e, posState) ==
    IF c.bit = 0
    THEN Rep0LongBit(GET_BIT(c, e.inp,
                             IsRep0Long + Shl(c.state, kNumPosBitsMax) + posState),
                     e)
    ELSE RepG1Bit(GET_BIT(c, e.inp, IsRepG1 + c.state), e)

\* the rep branch up to the choice of the distance; sets short for a short rep
SymRep(b, e, posState) ==
    IF e.checkDicSize = U32Zero /\ b.processedPos = 0 THEN [b EXCEPT !.exc = TRUE]
    ELSE RepG0Bit(GET_BIT(b, e.inp, IsRepG0 + b.state), e, posState)

\* a simple match after its distance: the copy, unless thrown or at the end mark
SymMatchCopy(md, e) == IF md.exc \/ md.brk THEN md ELSE MatchCopy(md, e)

\* a rep after the choice of its distance: the length and the copy
SymRepCopy(rp, e, posState) ==
    IF rp.exc \/ rp.short THEN rp
    ELSE MatchCopy(LenDecode(rp, e, RepLenCoder, posState), e)

\* after the bit of IsRep
IsRepBit(b, e, posState) ==
    IF b.bit = 0
    THEN SymMatchCopy(SymMatchDistance(LenDecode([b EXCEPT !.state = @ + kNumStates],
                                                 e, LenCoder, posState),
                                       e),
                      e)
    ELSE SymRepCopy(SymRep(b, e, posState), e, posState)

\* after the bit of IsMatch
IsMatchBit(a, e, posState) ==
    IF a.bit = 0 THEN SymLiteral(a, e)
    ELSE IsRepBit(GET_BIT(a, e.inp, IsRep + a.state), e, posState)

\* posState = processedPos & pbMask
PosState(L, e) == L.processedPos % Pow2(e.pb)

\* one turn of the do-while of DecodeReal
Symbol(L, e) ==
    IsMatchBit(GET_BIT([L EXCEPT !.short = FALSE], e.inp,
                       IsMatch + Shl(L.state, kNumPosBitsMax) + PosState(L, e)),
               e, PosState(L, e))

\* do Symbol while (dicPos < limit && buf < bufLimit): the test after a turn
RECURSIVE DecodeRealLoop(_, _, _)
DecodeRealWhile(L1, e, bufLimit) ==
    IF L1.exc \/ L1.brk THEN L1
    ELSE IF L1.dicPos < e.limit /\ L1.buf < bufLimit THEN DecodeRealLoop(L1, e, bufLimit)
    ELSE L1

DecodeRealLoop(L, e, bufLimit) == DecodeRealWhile(Symbol(L, e), e, bufLimit)

\* what DecodeReal only reads
DecodeRealEnv(p, inp, limit) ==
    [inp |-> inp, limit |-> limit, pb |-> p.m_properties.pb,
     lp |-> p.m_properties.lp, lc |-> p.m_properties.lc,
     dicBufSize |-> p.m_dic.size, checkDicSize |-> p.checkDicSize]

\* the locals of DecodeReal at its entry; ttt, bound, bit, sym, posSlot, dist,
\* mask, matchByte and offs are set before they are read
DecodeRealLocals(p) ==
    [state |-> p.state, rep0 |-> p.reps[1], rep1 |-> p.reps[2],
     rep2 |-> p.reps[3], rep3 |-> p.reps[4],
     dicPos |-> p.m_dic.pos, processedPos |-> p.processedPos, len |-> 0,
     buf |-> p.buf, range |-> p.m_range, code |-> p.m_code,
     probs |-> p.m_probs, mem |-> p.m_dic.mem, ub |-> p.ub,
     ttt |-> 0, bound |-> U32Zero, bit |-> 0, sym |-> 0, posSlot |-> 0,
     dist |-> U32Zero, mask |-> 0, matchByte |-> 0, offs |-> 0,
     exc |-> FALSE, brk |-> FALSE, short |-> FALSE]

\* the members written back at the end of DecodeReal, after NORMALIZE()
DecodeRealStore(p, L) ==
    [p |-> [p EXCEPT !.buf = L.buf, !.m_range = L.range, !.m_code = L.code,
                     !.remainLen = L.len, !.m_dic.pos = L.dicPos,
                     !.m_dic.mem = L.mem, !.m_probs = L.probs,
                     !.processedPos = L.processedPos,
                     !.reps = <<L.rep0, L.rep1, L.rep2, L.rep3>>,
                     !.state = L.state, !.ub = L.ub],
     exc |-> FALSE]

\* the end of DecodeReal, L1 being the locals after the loop.  A throw leaves
\* the members as they were, except the counters and dictionary bytes
\* already written in place.
DecodeRealEnd(p, L1, inp) ==
    IF L1.exc
    THEN [p |-> [p EXCEPT !.m_probs = L1.probs, !.m_dic.mem = L1.mem, !.ub = L1.ub],
          exc |-> TRUE]
    ELSE DecodeRealStore(p, NORMALIZE(L1, inp))

\* DecodeReal(limit, bufLimit) on the object p, this->buf being the index
\* p.buf into inp
DecodeReal(p, inp, limit, bufLimit) ==
    DecodeRealEnd(p, DecodeRealLoop(DecodeRealLocals(p), DecodeRealEnv(p, inp, limit),
                                    bufLimit),
                  inp)


\* dic[dicPos] = dic[(dicPos - rep0) + ((dicPos < rep0) ? dicBufSize : 0)]; dicPos++
\* w is the pair of the dictionary bytes and the ghost flag; the test of the
\* length of w1.mem (always size) has each turn evaluated before the next
RECURSIVE WriteRemLoop(_, _, _, _, _)
WriteRemLoop(w, size, rep0, dicPos, len) ==
    LET idx == (dicPos - rep0) + (IF dicPos < rep0 THEN size ELSE 0)
        w1 == [mem |-> MemPut(w.mem, size, dicPos, MemAt(w.mem, size, idx)),
               ub |-> MemWrUb(size, dicPos, MemRdUb(w.mem, size, idx, w.ub))]
    IN  IF len = 0 THEN w
        ELSE IF Len(w1.mem) = size THEN WriteRemLoop(w1, size, rep0, dicPos + 1, len - 1)
        ELSE w1

\* a bug to test the claims with: the bytes written by WriteRem are not
\* counted in processedPos
WriteRemStoreNoCount(p, len, w) ==
    [p EXCEPT !.remainLen = @ - len,
              !.m_dic.mem = w.mem,
              !.m_dic.pos = @ + len,
              !.ub = w.ub]

\* the members after the loop of WriteRem has written len bytes (w)
WriteRemStore(p, len, w) ==
    [p EXCEPT !.checkDicSize =
                  IF p.checkDicSize = U32Zero
                     /\ U32Le(U32Sub(p.m_properties.dicSize, U32(p.processedPos)), U32(len))
                  THEN p.m_properties.dicSize ELSE @,
              !.processedPos = @ + len,
              !.remainLen = @ - len,
              !.m_dic.mem = w.mem,
              !.m_dic.pos = @ + len,
              !.ub = w.ub]

\* len = min(remainLen, limit - dicPos); limit - dicPos is a size_t: below 0
\* it is huge
WriteRemLen(p, limit) ==
    IF limit - p.m_dic.pos >= 0 /\ limit - p.m_dic.pos < p.remainLen
    THEN limit - p.m_dic.pos ELSE p.remainLen

\* a bug to test the claims with: the end mark is taken for a match to be
\* continued
WriteRemBehindEndMark(p, limit) ==
    IF p.remainLen # 0
    THEN WriteRemStore(p, WriteRemLen(p, limit),
                       WriteRemLoop([mem |-> p.m_dic.mem, ub |-> p.ub], p.m_dic.size,
                                    p.reps[1], p.m_dic.pos, WriteRemLen(p, limit)))
    ELSE p

WriteRem(p, limit) ==
    IF p.remainLen # 0 /\ p.remainLen < kMatchSpecLenStart
    THEN WriteRemStore(p, WriteRemLen(p, limit),
                       WriteRemLoop([mem |-> p.m_dic.mem, ub |-> p.ub], p.m_dic.size,
                                    p.reps[1], p.m_dic.pos, WriteRemLen(p, limit)))
    ELSE p

\* if (processedPos >= m_properties.dicSize) checkDicSize = m_properties.dicSize
SetCheckDicSize(q) ==
    IF U32Le(q.m_properties.dicSize, U32(q.processedPos))
    THEN [q EXCEPT !.checkDicSize = q.m_properties.dicSize] ELSE q

\* one turn of the do-while of DecodeReal2, after its DecodeReal (r)
DecodeReal2Rest(r, limit) ==
    IF r.exc THEN r ELSE [p |-> WriteRem(SetCheckDicSize(r.p), limit), exc |-> FALSE]

\* the limit2 of DecodeReal2
Limit2(p, limit) ==
    LET rem == U32Sub(p.m_properties.dicSize, U32(p.processedPos))
    IN  IF p.checkDicSize = U32Zero /\ U32Lt(rem, U32(limit - p.m_dic.pos))
        THEN p.m_dic.pos + ToInt(rem) ELSE limit

\* one turn of the do-while of DecodeReal2
DecodeReal2Turn(p, inp, limit, bufLimit) ==
    DecodeReal2Rest(DecodeReal(p, inp, Limit2(p, limit), bufLimit), limit)

\* while (m_dic.pos < limit && buf < bufLimit && remainLen < kMatchSpecLenStart):
\* the test after a turn
RECURSIVE DecodeReal2Loop(_, _, _, _)
DecodeReal2While(r, inp, limit, bufLimit) ==
    IF r.exc THEN r
    ELSE IF r.p.m_dic.pos < limit /\ r.p.buf < bufLimit
            /\ r.p.remainLen < kMatchSpecLenStart
    THEN DecodeReal2Loop(r.p, inp, limit, bufLimit)
    ELSE r

DecodeReal2Loop(p, inp, limit, bufLimit) ==
    DecodeReal2While(DecodeReal2Turn(p, inp, limit, bufLimit), inp, limit, bufLimit)

\* if (remainLen > kMatchSpecLenStart) remainLen = kMatchSpecLenStart
CapRemainLen(r) ==
    IF ~r.exc /\ r.p.remainLen > kMatchSpecLenStart
    THEN [r EXCEPT !.p.remainLen = kMatchSpecLenStart]
    ELSE r

DecodeReal2(p, inp, limit, bufLimit) ==
    CapRemainLen(DecodeReal2Loop(p, inp, limit, bufLimit))


(***************************************************************************)
(* TryDummy: the dry run of the next symbol on the bytes inp[buf..bufLimit) *)
(* t is the frame of its locals (range, code, buf, res); t.err is the      *)
(* return of DUMMY_ERROR, after which the rest of the function is skipped. *)
(***************************************************************************)
NORMALIZE_CHECK(t, inp, bufLimit) ==
    IF t.err THEN t
    ELSE IF U32Lt(t.range, kTopValue)
    THEN IF t.buf >= bufLimit THEN [t EXCEPT !.err = TRUE]
         ELSE [t EXCEPT !.range = U32Shl8(@),
                        !.code = U32OrLow(U32Shl8(@), SrcAt(inp, t.buf)),
                        !.buf = @ + 1,
                        !.ub = SrcUb(inp, t.buf, @)]
    ELSE t

\* UPDATE_0_CHECK or UPDATE_1_CHECK, by the test code < bound
UPDATE_CHECK(t, bound) ==
    IF U32Lt(t.code, bound) THEN [t EXCEPT !.range = bound, !.bit = 0]
    ELSE [t EXCEPT !.range = U32Sub(@, bound), !.code = U32Sub(@, bound), !.bit = 1]

\* bit0Check(x) with ttt = *x, and the update that follows it
bit0Check(t, ttt) ==
    IF t.err THEN t ELSE UPDATE_CHECK(t, U32Mul(U32Shr11(t.range), ttt))

\* if (!NORMALIZE_CHECK()) return DUMMY_ERROR; then bit0Check and UPDATE_x_CHECK
GET_BIT_CHECK(t, inp, bufLimit, probs, x) ==
    bit0Check(NORMALIZE_CHECK(t, inp, bufLimit), ProbAt(probs, x))

\* i = (i + i) + bit, unless DUMMY_ERROR was returned
TreeStepCheck(g) == IF g.err THEN g ELSE TreeStep(g)

\* TREE_DECODE_CHECK: i = 1 < limit at the entry, so that the test comes first
RECURSIVE TreeLoopCheck(_, _, _, _, _, _)
TreeLoopCheck(t, inp, bufLimit, probs, prob, limit) ==
    IF t.err THEN t
    ELSE IF t.sym < limit
    THEN TreeLoopCheck(TreeStepCheck(GET_BIT_CHECK(t, inp, bufLimit, probs, prob + t.sym)),
                       inp, bufLimit, probs, prob, limit)
    ELSE [t EXCEPT !.sym = @ - limit]

TREE_DECODE_CHECK(t, inp, bufLimit, probs, prob, limit) ==
    TreeLoopCheck([t EXCEPT !.sym = 1], inp, bufLimit, probs, prob, limit)

MatchedStepCheck(g, bit) == IF g.err THEN g ELSE MatchedStep(g, bit)

RECURSIVE MatchedLitLoopCheck(_, _, _, _, _)
MatchedLitLoopCheck(t, inp, bufLimit, probs, prob) ==
    IF t.err THEN t
    ELSE IF t.sym < 256
    THEN MatchedLitLoopCheck(
             MatchedStepCheck(GET_BIT_CHECK(t, inp, bufLimit, probs,
                                            prob + t.offs + MatchedBit(t) + t.sym),
                              MatchedBit(t)),
             inp, bufLimit, probs, prob)
    ELSE t

\* i = 1; do { NORMALIZE_CHECK; GET_BIT_CHECK(prob + i, i) } while (--n != 0),
\* entered with n > 0
RECURSIVE ReverseBitsCheck(_, _, _, _, _, _)
ReverseBitsCheck(t, inp, bufLimit, probs, prob, numDirectBits) ==
    IF t.err \/ numDirectBits = 0 THEN t
    ELSE ReverseBitsCheck(TreeStepCheck(GET_BIT_CHECK(t, inp, bufLimit, probs,
                                                      prob + t.sym)),
                          inp, bufLimit, probs, prob, numDirectBits - 1)

\* range >>= 1; code -= range & (((code - range) >> 31) - 1)
DirectBitCheck(n) ==
    IF n.err THEN n
    ELSE [n EXCEPT !.range = U32Shr1(@),
                   !.code = IF U32Bit31(U32Sub(@, U32Shr1(n.range))) = 1 THEN @
                            ELSE U32Sub(@, U32Shr1(n.range))]

RECURSIVE DirectBitsCheck(_, _, _, _)
DirectBitsCheck(t, inp, bufLimit, numDirectBits) ==
    IF t.err \/ numDirectBits = 0 THEN t
    ELSE DirectBitsCheck(DirectBitCheck(NORMALIZE_CHECK(t, inp, bufLimit)), inp, bufLimit,
                         numDirectBits - 1)

\* TREE_DECODE_CHECK(probLen, limit, len); len += offset
LenSetCheck(d, offset) == IF d.err THEN d ELSE [d EXCEPT !.len = d.sym + offset]
LenTreeCheck(g, inp, bufLimit, probs, probLen, limit, offset) ==
    LenSetCheck(TREE_DECODE_CHECK(g, inp, bufLimit, probs, probLen, limit), offset)

LenChoice2Check(h, inp, bufLimit, probs, prob, posState) ==
    IF h.err THEN h
    ELSE IF h.bit = 0
    THEN LenTreeCheck(h, inp, bufLimit, probs, prob + LenMid + Shl(posState, kLenNumMidBits),
                      Pow2(kLenNumMidBits), kLenNumLowSymbols)
    ELSE LenTreeCheck(h, inp, bufLimit, probs, prob + LenHigh, Pow2(kLenNumHighBits),
                      kLenNumLowSymbols + kLenNumMidSymbols)

LenChoiceCheck(g, inp, bufLimit, probs, prob, posState) ==
    IF g.err THEN g
    ELSE IF g.bit = 0
    THEN LenTreeCheck(g, inp, bufLimit, probs, prob + LenLow + Shl(posState, kLenNumLowBits),
                      Pow2(kLenNumLowBits), 0)
    ELSE LenChoice2Check(GET_BIT_CHECK(g, inp, bufLimit, probs, prob + LenChoice2),
                         inp, bufLimit, probs, prob, posState)

TryDummyLen(t, inp, bufLimit, probs, prob, posState) ==
    LenChoiceCheck(GET_BIT_CHECK(t, inp, bufLimit, probs, prob + LenChoice),
                   inp, bufLimit, probs, prob, posState)

\* the bits of the distance once posSlot is decoded (s.sym)
DistBitsCheck(s, inp, bufLimit, probs) ==
    LET posSlot == s.sym
        numDirectBits == Shr(posSlot, 1) - 1
    IN  IF s.err \/ posSlot < kStartPosModelIndex THEN s
        ELSE IF posSlot < kEndPosModelIndex
        THEN ReverseBitsCheck([s EXCEPT !.sym = 1], inp, bufLimit, probs,
                              SpecPos + Shl(BitOr(2, posSlot % 2), numDirectBits)
                                  - posSlot - 1,
                              numDirectBits)
        ELSE ReverseBitsCheck([DirectBitsCheck(s, inp, bufLimit,
                                               numDirectBits - kNumAlignBits)
                                  EXCEPT !.sym = 1],
                              inp, bufLimit, probs, Align, kNumAlignBits)

TryDummyDistance(t, inp, bufLimit, probs) ==
    DistBitsCheck(TREE_DECODE_CHECK(t, inp, bufLimit, probs,
                                    PosSlot + Shl(IF t.len < kNumLenToPosStates THEN t.len
                                                  ELSE kNumLenToPosStates - 1,
                                                  kNumPosSlotBits),
                                    Pow2(kNumPosSlotBits)),
                  inp, bufLimit, probs)

TryDummyLiteral(p, t, inp, bufLimit) ==
    LET dic == p.m_dic
        ctx == p.checkDicSize # U32Zero \/ p.processedPos # 0
        prevIdx == (IF dic.pos = 0 THEN dic.size ELSE dic.pos) - 1
        prob == Literal +
                (IF ctx
                 THEN LZMA_LIT_SIZE * (Shl(p.processedPos % Pow2(p.m_properties.lp),
                                           p.m_properties.lc)
                                       + Shr(MemAt(dic.mem, dic.size, prevIdx),
                                             8 - p.m_properties.lc))
                 ELSE 0)
        ub1 == IF ctx THEN MemRdUb(dic.mem, dic.size, prevIdx, t.ub) ELSE t.ub
        mIdx == dic.pos - p.reps[1] + (IF dic.pos < p.reps[1] THEN dic.size ELSE 0)
    IN  IF p.state < kNumLitStates
        THEN TREE_DECODE_CHECK([t EXCEPT !.ub = ub1], inp, bufLimit, p.m_probs, prob, 256)
        ELSE MatchedLitLoopCheck([t EXCEPT !.ub = MemRdUb(dic.mem, dic.size, mIdx, ub1),
                                           !.sym = 1,
                                           !.matchByte = MemAt(dic.mem, dic.size, mIdx),
                                           !.offs = 256],
                                 inp, bufLimit, p.m_probs, prob)

\* after the bit of IsRepG1
RepG1Check(p, g1, inp, bufLimit) ==
    IF g1.err \/ g1.bit = 0 THEN g1
    ELSE GET_BIT_CHECK(g1, inp, bufLimit, p.m_probs, IsRepG2 + p.state)

\* after the bit of IsRep0Long: t.short marks the early return of a short rep
Rep0LongCheck(d, inp, bufLimit) ==
    IF d.err THEN d
    ELSE IF d.bit = 0 THEN [NORMALIZE_CHECK(d, inp, bufLimit) EXCEPT !.short = TRUE]
    ELSE d

\* after the bit of IsRepG0
RepG0Check(p, c, inp, bufLimit, posState) ==
    IF c.err THEN c
    ELSE IF c.bit = 0
    THEN Rep0LongCheck(GET_BIT_CHECK(c, inp, bufLimit, p.m_probs,
                                     IsRep0Long + Shl(p.state, kNumPosBitsMax) + posState),
                       inp, bufLimit)
    ELSE RepG1Check(p, GET_BIT_CHECK(c, inp, bufLimit, p.m_probs, IsRepG1 + p.state),
                    inp, bufLimit)

\* the rep branch up to the choice of the distance
TryDummyRep(p, b, inp, bufLimit, posState) ==
    RepG0Check(p, GET_BIT_CHECK(b, inp, bufLimit, p.m_probs, IsRepG0 + p.state),
               inp, bufLimit, posState)

\* a match after its length: the distance (state < 4)
MatchDistCheck(p, ml, inp, bufLimit) ==
    IF ml.err THEN ml ELSE TryDummyDistance(ml, inp, bufLimit, p.m_probs)

\* a rep after the choice of its distance: the length
RepLenCheck(p, rp, inp, bufLimit, posState) ==
    IF rp.err \/ rp.short THEN rp
    ELSE TryDummyLen(rp, inp, bufLimit, p.m_probs, RepLenCoder, posState)

\* after the bit of IsRep
IsRepCheck(p, b, inp, bufLimit, posState) ==
    IF b.err THEN b
    ELSE IF b.bit = 0
    THEN MatchDistCheck(p, TryDummyLen([b EXCEPT !.res = "DUMMY_MATCH"], inp, bufLimit,
                                       p.m_probs, LenCoder, posState),
                        inp, bufLimit)
    ELSE RepLenCheck(p, TryDummyRep(p, [b EXCEPT !.res = "DUMMY_REP"], inp, bufLimit,
                                    posState),
                     inp, bufLimit, posState)

\* after the bit of IsMatch
IsMatchCheck(p, a, inp, bufLimit, posState) ==
    IF a.err THEN a
    ELSE IF a.bit = 0
    THEN TryDummyLiteral(p, [a EXCEPT !.res = "DUMMY_LIT"], inp, bufLimit)
    ELSE IsRepCheck(p, GET_BIT_CHECK(a, inp, bufLimit, p.m_probs, IsRep + p.state),
                    inp, bufLimit, posState)

\* what TryDummy returns, last being its locals after the last NORMALIZE_CHECK
DummyReturn(last) ==
    [res |-> IF last.err THEN "DUMMY_ERROR" ELSE last.res, ub |-> last.ub]

\* if (!NORMALIZE_CHECK()) return DUMMY_ERROR; return res, unless the short
\* rep has returned already
DummyEnd(body, inp, bufLimit) ==
    DummyReturn(IF body.short THEN body ELSE NORMALIZE_CHECK(body, inp, bufLimit))

\* the locals of TryDummy at its entry
DummyLocals(p, from) ==
    [range |-> p.m_range, code |-> p.m_code, buf |-> from, err |-> FALSE,
     bit |-> 0, sym |-> 0, len |-> 0, matchByte |-> 0, offs |-> 0,
     res |-> "DUMMY_ERROR", short |-> FALSE, ub |-> p.ub]

\* TryDummy(buf, inSize), buf being the index from into inp
TryDummy(p, inp, from, inSize) ==
    DummyEnd(IsMatchCheck(p,
                          GET_BIT_CHECK(DummyLocals(p, from), inp, from + inSize, p.m_probs,
                                        IsMatch + Shl(p.state, kNumPosBitsMax)
                                            + (p.processedPos % Pow2(p.m_properties.pb))),
                          inp, from + inSize, p.processedPos % Pow2(p.m_properties.pb)),
             inp, from + inSize)


(***************************************************************************)
(* DecoderCore::DecodeToDic.  f is the frame of the call: the object p,    *)
(* the locals srcBytes (an index into src), inSize, and the results        *)
(* srcLen, status; f.ret marks a return and f.exc a thrown BadStream.      *)
(***************************************************************************)
\* for (; inSize > 0 && tempBufSize < RC_INIT_SIZE; srcLen++, inSize--) ...
CoreFlush(f, src) ==
    LET n == Min(f.inSize, RC_INIT_SIZE - f.p.tempBufSize)
        k == IF n < 0 THEN 0 ELSE n
        tb == f.p.tempBuf \o SubSeq(src, f.srcBytes + 1, f.srcBytes + k)
        f1 == [f EXCEPT !.p.tempBuf = tb, !.p.tempBufSize = @ + k,
                        !.srcBytes = @ + k, !.srcLen = @ + k, !.inSize = @ - k]
    IN  IF ~f.p.needFlush THEN f
        ELSE IF f1.p.tempBufSize < RC_INIT_SIZE
        THEN [f1 EXCEPT !.status = "NeedsMoreInput", !.ret = TRUE]
        ELSE IF f1.p.tempBuf[1] # 0 THEN [f1 EXCEPT !.exc = TRUE]
        ELSE [f1 EXCEPT !.p = [InitRc(f1.p, f1.p.tempBuf) EXCEPT !.tempBufSize = 0,
                                                                !.tempBuf = <<>>]]

\* a bug to test the claims with: at the limit, a match still pending is
\* reported as NotFinished in the finish mode End too
CoreAtLimitLenient(f, dicLimit, finishMode) ==
    IF f.p.m_dic.pos >= dicLimit
    THEN IF f.p.remainLen = 0 /\ f.p.m_code = U32Zero
         THEN [f EXCEPT !.status = "MaybeFinishedWithoutMark", !.ret = TRUE]
         ELSE IF finishMode = "Any" \/ f.p.remainLen # 0
         THEN [f EXCEPT !.status = "NotFinished", !.ret = TRUE]
         ELSE [f EXCEPT !.checkEndMarkNow = TRUE]
    ELSE [f EXCEPT !.checkEndMarkNow = FALSE]

\* if (m_dic.pos >= dicLimit) ...: sets f.checkEndMarkNow or returns or throws
CoreAtLimit(f, dicLimit, finishMode) ==
    IF f.p.m_dic.pos >= dicLimit
    THEN IF f.p.remainLen = 0 /\ f.p.m_code = U32Zero
         THEN [f EXCEPT !.status = "MaybeFinishedWithoutMark", !.ret = TRUE]
         ELSE IF finishMode = "Any"
         THEN [f EXCEPT !.status = "NotFinished", !.ret = TRUE]
         ELSE IF f.p.remainLen # 0
         THEN [f EXCEPT !.status = "NotFinished", !.exc = TRUE]
         ELSE [f EXCEPT !.checkEndMarkNow = TRUE]
    ELSE [f EXCEPT !.checkEndMarkNow = FALSE]

\* after DecodeReal2 on the bytes of src (r): processed = buf - src
SrcAdvance(f, r) ==
    IF r.exc THEN [f EXCEPT !.p = r.p, !.exc = TRUE]
    ELSE [f EXCEPT !.p = r.p,
                   !.srcLen = @ + (r.p.buf - f.srcBytes),
                   !.inSize = @ - (r.p.buf - f.srcBytes),
                   !.srcBytes = r.p.buf]

\* buf = src; DecodeReal2(dicLimit, bufLimit) and the above
SrcDecode(f, p0, src, dicLimit, bufLimit) ==
    SrcAdvance(f, DecodeReal2([p0 EXCEPT !.buf = f.srcBytes], src, dicLimit, bufLimit))

\* the branch tempBufSize == 0 after TryDummy(src, inSize) (dummy)
SrcAfterDummy(f, src, dicLimit, dummy) ==
    IF dummy.res = "DUMMY_ERROR"
    THEN [f EXCEPT !.p = [f.p EXCEPT
                            !.tempBuf = SubSeq(src, f.srcBytes + 1, f.srcBytes + f.inSize),
                            !.tempBufSize = f.inSize,
                            !.ub = IF dummy.ub = "none" /\ f.inSize > LZMA_REQUIRED_INPUT_MAX
                                   THEN "tempBuf_overflow" ELSE dummy.ub],
                   !.srcLen = @ + f.inSize,
                   !.status = "NeedsMoreInput", !.ret = TRUE]
    ELSE IF f.checkEndMarkNow /\ dummy.res # "DUMMY_MATCH"
    THEN [f EXCEPT !.p.ub = dummy.ub, !.status = "NotFinished", !.exc = TRUE]
    ELSE SrcDecode(f, [f.p EXCEPT !.ub = dummy.ub], src, dicLimit, f.srcBytes)

\* the branch tempBufSize == 0: decode from src
CoreFromSrc(f, src, dicLimit) ==
    IF f.inSize < LZMA_REQUIRED_INPUT_MAX \/ f.checkEndMarkNow
    THEN SrcAfterDummy(f, src, dicLimit, TryDummy(f.p, src, f.srcBytes, f.inSize))
    ELSE SrcDecode(f, f.p, src, dicLimit, f.srcBytes + f.inSize - LZMA_REQUIRED_INPUT_MAX)

\* after DecodeReal2 on the bytes of tempBuf (r):
\* lookAhead -= rem - (buf - tempBuf), unsigned: below 0 it wraps
TempAdvance(f, lookAhead, rem, r) ==
    IF r.exc THEN [f EXCEPT !.p = r.p, !.exc = TRUE]
    ELSE [f EXCEPT !.p = [r.p EXCEPT !.tempBufSize = 0, !.tempBuf = <<>>,
                                     !.ub = IF @ = "none" /\ lookAhead - (rem - r.p.buf) < 0
                                            THEN "lookAhead_underflow" ELSE @],
                   !.srcLen = @ + (lookAhead - (rem - r.p.buf)),
                   !.srcBytes = @ + (lookAhead - (rem - r.p.buf)),
                   !.inSize = @ - (lookAhead - (rem - r.p.buf))]

\* buf = tempBuf; DecodeReal2(dicLimit, buf) and the above
TempDecode(f, p2, lookAhead, dicLimit) ==
    TempAdvance(f, lookAhead, p2.tempBufSize,
                DecodeReal2([p2 EXCEPT !.buf = 0], p2.tempBuf, dicLimit, 0))

\* the branch tempBufSize != 0 after TryDummy(tempBuf, rem) (dummy)
TempAfterDummy(f, p1, lookAhead, dicLimit, dummy) ==
    IF dummy.res = "DUMMY_ERROR"
    THEN [f EXCEPT !.p = [p1 EXCEPT !.ub = dummy.ub], !.srcLen = @ + lookAhead,
                   !.status = "NeedsMoreInput", !.ret = TRUE]
    ELSE IF f.checkEndMarkNow /\ dummy.res # "DUMMY_MATCH"
    THEN [f EXCEPT !.p = [p1 EXCEPT !.ub = dummy.ub], !.status = "NotFinished",
                   !.exc = TRUE]
    ELSE TempDecode(f, [p1 EXCEPT !.ub = dummy.ub], lookAhead, dicLimit)

\* a bug to test the claims with: the bytes kept in tempBuf are ignored
CoreIgnoresTempBuf(f, src, dicLimit) == CoreFromSrc(f, src, dicLimit)

\* the branch tempBufSize != 0: decode the symbol held in tempBuf
CoreFromTempBuf(f, src, dicLimit) ==
    LET old == f.p.tempBufSize
        lookAhead == Min(LZMA_REQUIRED_INPUT_MAX - old, f.inSize)
        rem == old + lookAhead
        tb == f.p.tempBuf \o SubSeq(src, f.srcBytes + 1, f.srcBytes + lookAhead)
        p1 == [f.p EXCEPT !.tempBuf = tb, !.tempBufSize = rem]
    IN  IF rem < LZMA_REQUIRED_INPUT_MAX \/ f.checkEndMarkNow
        THEN TempAfterDummy(f, p1, lookAhead, dicLimit, TryDummy(p1, tb, 0, rem))
        ELSE TempDecode(f, p1, lookAhead, dicLimit)

\* if (needInitState) InitStateReal(); then one of the two branches
CoreDecodeSymbols(f, src, dicLimit) ==
    IF f.p.tempBufSize = 0 THEN CoreFromSrc(f, src, dicLimit)
    ELSE CoreFromTempBuf(f, src, dicLimit)

\* one turn of while (remainLen != kMatchSpecLenStart), after the test of
\* the output limit (f2)
CoreAfterLimit(f2, src, dicLimit) ==
    IF f2.ret \/ f2.exc THEN f2
    ELSE CoreDecodeSymbols(IF f2.p.needInitState THEN [f2 EXCEPT !.p = InitStateReal(@)]
                           ELSE f2,
                           src, dicLimit)

\* one turn, after the bytes of the range coder's start were read (f1)
CoreAfterFlush(f1, src, dicLimit, finishMode) ==
    IF f1.ret \/ f1.exc THEN f1
    ELSE CoreAfterLimit(CoreAtLimit(f1, dicLimit, finishMode), src, dicLimit)

\* one turn of while (remainLen != kMatchSpecLenStart)
CoreTurn(f, src, dicLimit, finishMode) ==
    CoreAfterFlush(CoreFlush(f, src), src, dicLimit, finishMode)

RECURSIVE CoreLoop(_, _, _, _)
CoreLoop(f, src, dicLimit, finishMode) ==
    IF f.ret \/ f.exc THEN f
    ELSE IF f.p.remainLen # kMatchSpecLenStart
    THEN CoreLoop(CoreTurn(f, src, dicLimit, finishMode), src, dicLimit, finishMode)
    ELSE IF f.p.m_code = U32Zero
    THEN [f EXCEPT !.status = "FinishedWithMark", !.ret = TRUE]
    ELSE [f EXCEPT !.exc = TRUE]

\* what the call leaves: the object, srcLen and status, exc if it threw
CoreResult(f) == [p |-> f.p, srcLen |-> f.srcLen, status |-> f.status, exc |-> f.exc]

\* the frame at the first test of the while: srcLen = 0, WriteRem(dicLimit),
\* status = NotSpecified
CoreEnter(p, dicLimit, src) ==
    [p |-> WriteRem(p, dicLimit), srcBytes |-> 0, inSize |-> Len(src),
     srcLen |-> 0, status |-> "NotSpecified",
     checkEndMarkNow |-> FALSE, ret |-> FALSE, exc |-> FALSE]

\* src holds exactly the srcLen bytes the caller passes
CoreDecodeToDic(p, dicLimit, src, finishMode) ==
    CoreResult(CoreLoop(CoreEnter(p, dicLimit, src), src, dicLimit, finishMode))


(***************************************************************************)
(* Decoder2 (Lzma2Decoder.hpp)                                             *)
(***************************************************************************)
CONTROL_LZMA == 128
CONTROL_COPY_NO_RESET == 2
CONTROL_COPY_RESET_DIC == 1
CONTROL_EOF == 0
LC_PLUS_LP_MAX == 4

ELzma2State == {"LZMA2_STATE_CONTROL", "LZMA2_STATE_UNPACK0", "LZMA2_STATE_UNPACK1",
                "LZMA2_STATE_PACK0", "LZMA2_STATE_PACK1", "LZMA2_STATE_PROP",
                "LZMA2_STATE_DATA", "LZMA2_STATE_DATA_CONT", "LZMA2_STATE_FINISHED",
                "LZMA2_STATE_ERROR"}

\* a bug to test the claims with: only a chunk of mode 3 has a property byte
isTherePropInMode3(mode) == mode = 3

isThereProp(mode) == mode >= 2

\* a bug to test the claims with: the low bit of prop is left out of the size
dicSizePowerOfTwo(prop) ==
    IF prop \div 2 + 11 >= 16 THEN <<Shl(2, prop \div 2 - 5) % W16, 0>>
    ELSE U32(Shl(2, prop \div 2 + 11))

\* (2ul | (prop & 1)) << (prop / 2 + 11), as a UInt32
dicSizeFromProp(prop) ==
    LET base == BitOr(2, prop % 2)
        k == (prop \div 2) + 11
    IN  IF k >= 16 THEN <<Shl(base, k - 16) % W16, 0>> ELSE U32(Shl(base, k))

isUncompressedState(self) == BitAnd(self.control, CONTROL_LZMA) = 0
getLzmaMode(self) == Shr(self.control, 5) % 4

\* a bug to test the claims with: Reset() leaves Dic.pos where it is
ResetKeepsPos(self) ==
    [self EXCEPT !.state = "LZMA2_STATE_CONTROL",
                 !.needInitDic = TRUE,
                 !.needInitState = TRUE,
                 !.needInitProp = TRUE,
                 !.decoder = InitDicAndState(@, TRUE, TRUE)]

Reset(self) ==
    [self EXCEPT !.state = "LZMA2_STATE_CONTROL",
                 !.needInitDic = TRUE,
                 !.needInitState = TRUE,
                 !.needInitProp = TRUE,
                 !.decoder = InitDicAndState([@ EXCEPT !.m_dic.pos = 0], TRUE, TRUE)]

\* a bug to test the claims with: the constructor takes any prop
AnyPropTaken(prop) == FALSE

\* if (prop > 40) throw std::invalid_argument("prop"), in the constructor
PropOutOfRange(prop) == prop > 40

\* Decoder2(prop) for prop <= 40, and the caller's assignment of m_dic.mem and
\* m_dic.size (a buffer of bufSize bytes) that follows every construction.
\* packSize, unpackSize and control are left unset by the constructor: 0 here.
Decoder2(prop, bufSize) ==
    Reset([decoder |-> NewCore(IF prop = 40 THEN U32Max ELSE dicSizeFromProp(prop), bufSize),
           packSize |-> 0, unpackSize |-> 0,
           state |-> "LZMA2_STATE_CONTROL", control |-> 0,
           needInitDic |-> FALSE, needInitState |-> FALSE, needInitProp |-> FALSE])

\* a bug to test the claims with: every control byte below CONTROL_LZMA is
\* taken for an uncompressed chunk
NoControlReserved(control) == FALSE

\* (control & 0x7F) > 2, in the state Control
ControlReserved(control) == BitAnd(control, 127) > 2

\* a bug to test the claims with: lc and lp are taken whatever their sum
AnyLcLpTaken(lc, lp) == FALSE

\* lc + lp > LC_PLUS_LP_MAX, in the state Prop
LcLpTooBig(lc, lp) == lc + lp > LC_PLUS_LP_MAX

\* UpdateState(b): the object after the call, without the assignment of the
\* returned state, which is left in the field next
UpdateState(self, b) ==
    LET st == self.state
        c1 == [self EXCEPT !.control = b]
        lc == b % 9
        b9 == b \div 9
        lp == b9 % 5
        withPb == [self EXCEPT !.decoder.m_properties.pb = b9 \div 5]
    IN  CASE st = "LZMA2_STATE_CONTROL" ->
               IF b = 0 THEN [self |-> c1, next |-> "LZMA2_STATE_FINISHED"]
               ELSE IF isUncompressedState(c1)
               THEN IF ControlReserved(b) THEN [self |-> c1, next |-> "LZMA2_STATE_ERROR"]
                    ELSE [self |-> [c1 EXCEPT !.unpackSize = 0],
                          next |-> "LZMA2_STATE_UNPACK0"]
               ELSE [self |-> [c1 EXCEPT !.unpackSize = Shl(BitAnd(b, 31), 16)],
                     next |-> "LZMA2_STATE_UNPACK0"]
          [] st = "LZMA2_STATE_UNPACK0" ->
               [self |-> [self EXCEPT !.unpackSize = BitOr(@, Shl(b, 8))],
                next |-> "LZMA2_STATE_UNPACK1"]
          [] st = "LZMA2_STATE_UNPACK1" ->
               [self |-> [self EXCEPT !.unpackSize = BitOr(@, b) + 1],
                next |-> IF isUncompressedState(self) THEN "LZMA2_STATE_DATA"
                         ELSE "LZMA2_STATE_PACK0"]
          [] st = "LZMA2_STATE_PACK0" ->
               [self |-> [self EXCEPT !.packSize = Shl(b, 8)],
                next |-> "LZMA2_STATE_PACK1"]
          [] st = "LZMA2_STATE_PACK1" ->
               [self |-> [self EXCEPT !.packSize = BitOr(@, b) + 1],
                next |-> IF isThereProp(getLzmaMode(self)) THEN "LZMA2_STATE_PROP"
                         ELSE IF self.needInitProp THEN "LZMA2_STATE_ERROR"
                         ELSE "LZMA2_STATE_DATA"]
          [] st = "LZMA2_STATE_PROP" ->
               IF b >= 9 * 5 * 5 THEN [self |-> self, next |-> "LZMA2_STATE_ERROR"]
               ELSE IF LcLpTooBig(lc, lp)
               THEN [self |-> withPb, next |-> "LZMA2_STATE_ERROR"]
               ELSE [self |-> [withPb EXCEPT !.decoder.m_properties.lc = lc,
                                             !.decoder.m_properties.lp = lp,
                                             !.needInitProp = FALSE],
                     next |-> "LZMA2_STATE_DATA"]
          [] OTHER -> [self |-> self, next |-> "LZMA2_STATE_ERROR"]


(***************************************************************************)
(* Decoder2::DecodeToDic.  F is the frame of the call: the object self,    *)
(* the results srcLen and status, ret for a return and exc for a thrown    *)
(* BadStream.  src holds exactly the bytes the caller passes (inSize =     *)
(* Len(src)); the pointer srcBytes is src + srcLen all along.              *)
(***************************************************************************)
IsDataState(st) == st = "LZMA2_STATE_DATA" \/ st = "LZMA2_STATE_DATA_CONT"

\* a bug to test the claims with: the end of the input is taken for the end
\* of the stream
TurnHeaderFinishes(F, src) == [F EXCEPT !.status = "FinishedWithMark", !.ret = TRUE]

\* a bug to test the claims with: a header cut by the end of the input is
\* taken for a broken stream
TurnHeaderThrows(F, src) ==
    IF F.srcLen = Len(src) THEN [F EXCEPT !.exc = TRUE]
    ELSE [F EXCEPT !.srcLen = @ + 1,
                   !.self = [UpdateState(F.self, src[F.srcLen + 1]).self
                                EXCEPT !.state = UpdateState(F.self, src[F.srcLen + 1]).next]]

\* a bug to test the claims with: the byte of a header is read and left in
\* the input
TurnHeaderPeeks(F, src) ==
    IF F.srcLen = Len(src) THEN [F EXCEPT !.status = "NeedsMoreInput", !.ret = TRUE]
    ELSE [F EXCEPT !.self = [UpdateState(F.self, src[F.srcLen + 1]).self
                                EXCEPT !.state = UpdateState(F.self, src[F.srcLen + 1]).next]]

\* the header branch: one byte to UpdateState
TurnHeader(F, src) ==
    IF F.srcLen = Len(src) THEN [F EXCEPT !.status = "NeedsMoreInput", !.ret = TRUE]
    ELSE LET u == UpdateState(F.self, src[F.srcLen + 1])
         IN  [F EXCEPT !.srcLen = @ + 1, !.self = [u.self EXCEPT !.state = u.next]]

\* a bug to test the claims with: the room left below dicLimit is ignored
DestSizeCurNoLimit(self, dicLimit) == self.unpackSize

\* destSizeCur = dicLimit - dicPos; if (unpackSize <= destSizeCur) destSizeCur = unpackSize
DestSizeCur(self, dicLimit) ==
    LET dest0 == dicLimit - self.decoder.m_dic.pos
    IN  IF self.unpackSize <= dest0 THEN self.unpackSize ELSE dest0

\* a bug to test the claims with: a chunk is never refused for a missing reset
NoResetMissing(self, initDic) == FALSE

\* else if (needInitDic) throw BadStream(), in the branch of if (initDic)
DicResetMissing(self, initDic) == ~initDic /\ self.needInitDic

\* a bug to test the claims with: the chunk with dictionary reset leaves
\* needInitProp and needInitState as they are
TurnUncompressedKeepsFlags(F, src, dicLimit) ==
    LET self == F.self
        initDic == self.control = CONTROL_COPY_RESET_DIC
        isData == self.state = "LZMA2_STATE_DATA"
        s1 == IF isData
              THEN [self EXCEPT !.needInitDic = FALSE,
                                !.decoder = InitDicAndState(@, initDic, FALSE)]
              ELSE self
        src0 == Len(src) - F.srcLen
        srcSizeCur == IF src0 > DestSizeCur(self, dicLimit)
                      THEN DestSizeCur(self, dicLimit) ELSE src0
    IN  IF F.srcLen = Len(src) THEN [F EXCEPT !.status = "NeedsMoreInput", !.ret = TRUE]
        ELSE IF isData /\ DicResetMissing(self, initDic) THEN [F EXCEPT !.exc = TRUE]
        ELSE IF srcSizeCur = 0 THEN [F EXCEPT !.self = s1, !.exc = TRUE]
        ELSE [F EXCEPT !.srcLen = @ + srcSizeCur,
                       !.self = [s1 EXCEPT
                           !.decoder = UpdateWithUncompressed(
                                           @, SubSeq(src, F.srcLen + 1, F.srcLen + srcSizeCur),
                                           srcSizeCur),
                           !.unpackSize = @ - srcSizeCur,
                           !.state = IF self.unpackSize - srcSizeCur = 0
                                     THEN "LZMA2_STATE_CONTROL" ELSE "LZMA2_STATE_DATA_CONT"]]

\* the branch of an uncompressed chunk
TurnUncompressed(F, src, dicLimit) ==
    LET self == F.self
        dicPos == self.decoder.m_dic.pos
        destSizeCur == DestSizeCur(self, dicLimit)
        initDic == self.control = CONTROL_COPY_RESET_DIC
        isData == self.state = "LZMA2_STATE_DATA"
        s1 == IF isData
              THEN [self EXCEPT !.needInitProp = IF initDic THEN TRUE ELSE @,
                                !.needInitState = IF initDic THEN TRUE ELSE @,
                                !.needInitDic = FALSE,
                                !.decoder = InitDicAndState(@, initDic, FALSE)]
              ELSE self
        src0 == Len(src) - F.srcLen
        srcSizeCur == IF src0 > destSizeCur THEN destSizeCur ELSE src0
        s2 == [s1 EXCEPT !.decoder = UpdateWithUncompressed(
                                         @, SubSeq(src, F.srcLen + 1, F.srcLen + srcSizeCur),
                                         srcSizeCur),
                         !.unpackSize = @ - srcSizeCur,
                         !.state = IF self.unpackSize - srcSizeCur = 0
                                   THEN "LZMA2_STATE_CONTROL" ELSE "LZMA2_STATE_DATA_CONT"]
    IN  IF F.srcLen = Len(src) THEN [F EXCEPT !.status = "NeedsMoreInput", !.ret = TRUE]
        ELSE IF isData /\ DicResetMissing(self, initDic) THEN [F EXCEPT !.exc = TRUE]
        ELSE IF srcSizeCur = 0 THEN [F EXCEPT !.self = s1, !.exc = TRUE]
        ELSE [F EXCEPT !.self = s2, !.srcLen = @ + srcSizeCur]

\* a bug to test the claims with: the sizes of a chunk are never compared
NoSizesMismatch(status, self) == FALSE

\* status != MaybeFinishedWithoutMark || unpackSize != 0 || packSize != 0
SizesMismatch(status, self) ==
    status # "MaybeFinishedWithoutMark" \/ self.unpackSize # 0 \/ self.packSize # 0

\* packSize -= srcSizeCur; unpackSize -= outSizeProcessed, after the call of
\* the core (r); both are unsigned: below 0 they wrap
LzmaSizes(s1, dicPos, r) ==
    [s1 EXCEPT !.decoder = [r.p EXCEPT !.ub = IF @ = "none"
                                                 /\ (s1.packSize - r.srcLen < 0
                                                     \/ s1.unpackSize - (r.p.m_dic.pos - dicPos) < 0)
                                              THEN "size_underflow" ELSE @],
               !.packSize = @ - r.srcLen,
               !.unpackSize = @ - (r.p.m_dic.pos - dicPos)]

\* a bug to test the claims with: the call returns after every call of the
\* core, whatever the status the core reports
TurnLzmaReturns(F, s1, dicPos, r) ==
    IF r.exc
    THEN [F EXCEPT !.self = [s1 EXCEPT !.decoder = r.p], !.status = r.status, !.exc = TRUE]
    ELSE [F EXCEPT !.self = LzmaSizes(s1, dicPos, r), !.srcLen = @ + r.srcLen,
                   !.status = r.status, !.ret = TRUE]

\* the branch of an LZMA chunk after decoder.DecodeToDic (r) on the object s1
TurnLzmaAfter(F, s1, dicPos, r) ==
    LET srcSizeCur == r.srcLen
        outSizeProcessed == r.p.m_dic.pos - dicPos
        s2 == LzmaSizes(s1, dicPos, r)
        F2 == [F EXCEPT !.self = s2, !.srcLen = @ + srcSizeCur, !.status = r.status]
        idle == srcSizeCur = 0 /\ outSizeProcessed = 0
        F3 == IF idle THEN [F2 EXCEPT !.self.state = "LZMA2_STATE_CONTROL"] ELSE F2
    IN  IF r.exc
        THEN [F EXCEPT !.self = [s1 EXCEPT !.decoder = r.p], !.status = r.status,
                       !.exc = TRUE]
        ELSE IF r.status = "NeedsMoreInput" THEN [F2 EXCEPT !.ret = TRUE]
        ELSE IF idle /\ SizesMismatch(r.status, s2) THEN [F2 EXCEPT !.exc = TRUE]
        ELSE IF r.status = "MaybeFinishedWithoutMark"
        THEN [F3 EXCEPT !.status = "NotFinished"]
        ELSE F3

\* a bug to test the claims with: an LZMA chunk is never refused for a
\* missing reset
NoLzmaResetMissing(self, initDic, initState) == FALSE

\* (!initDic && needInitDic) || (!initState && needInitState)
LzmaResetMissing(self, initDic, initState) ==
    (~initDic /\ self.needInitDic) \/ (~initState /\ self.needInitState)

\* the branch of an LZMA chunk
TurnLzma(F, src, dicLimit) ==
    LET self == F.self
        dicPos == self.decoder.m_dic.pos
        curFinishMode == IF self.unpackSize <= dicLimit - dicPos THEN "End" ELSE "Any"
        isData == self.state = "LZMA2_STATE_DATA"
        mode == getLzmaMode(self)
        initDic == mode = 3
        initState == mode > 0
        s1 == IF isData
              THEN [self EXCEPT !.decoder = InitDicAndState(@, initDic, initState),
                                !.needInitDic = FALSE,
                                !.needInitState = FALSE,
                                !.state = "LZMA2_STATE_DATA_CONT"]
              ELSE self
        src0 == Len(src) - F.srcLen
        srcSizeIn == IF src0 > self.packSize THEN self.packSize ELSE src0
    IN  IF isData /\ LzmaResetMissing(self, initDic, initState)
        THEN [F EXCEPT !.exc = TRUE]
        ELSE TurnLzmaAfter(F, s1, dicPos,
                           CoreDecodeToDic(s1.decoder, dicPos + DestSizeCur(self, dicLimit),
                                           SubSeq(src, F.srcLen + 1, F.srcLen + srcSizeIn),
                                           curFinishMode))

\* a bug to test the claims with: the loop goes on at Dic.pos = dicLimit with
\* the finish mode Any
TurnIgnoresLimit(F, src, dicLimit, finishMode) ==
    IF F.self.state = "LZMA2_STATE_FINISHED"
    THEN [F EXCEPT !.status = "FinishedWithMark", !.ret = TRUE]
    ELSE IF F.self.state = "LZMA2_STATE_ERROR" THEN [F EXCEPT !.exc = TRUE]
    ELSE IF ~IsDataState(F.self.state) THEN TurnHeader(F, src)
    ELSE IF isUncompressedState(F.self) THEN TurnUncompressed(F, src, dicLimit)
    ELSE TurnLzma(F, src, dicLimit)

\* a bug to test the claims with: the loop goes on reading headers after the
\* end of the stream
TurnReadsOn(F, src, dicLimit, finishMode) ==
    IF F.self.state = "LZMA2_STATE_ERROR" THEN [F EXCEPT !.exc = TRUE]
    ELSE IF F.self.decoder.m_dic.pos = dicLimit /\ finishMode = "Any"
    THEN [F EXCEPT !.status = "NotFinished", !.ret = TRUE]
    ELSE IF ~IsDataState(F.self.state) THEN TurnHeader(F, src)
    ELSE IF isUncompressedState(F.self) THEN TurnUncompressed(F, src, dicLimit)
    ELSE TurnLzma(F, src, dicLimit)

\* one evaluation of the while condition and, unless the loop ends, one turn
Turn(F, src, dicLimit, finishMode) ==
    LET self == F.self
    IN  IF self.state = "LZMA2_STATE_FINISHED"
        THEN [F EXCEPT !.status = "FinishedWithMark", !.ret = TRUE]
        ELSE IF self.state = "LZMA2_STATE_ERROR" THEN [F EXCEPT !.exc = TRUE]
        ELSE IF self.decoder.m_dic.pos = dicLimit /\ finishMode = "Any"
        THEN [F EXCEPT !.status = "NotFinished", !.ret = TRUE]
        ELSE IF ~IsDataState(self.state) THEN TurnHeader(F, src)
        ELSE IF isUncompressedState(self) THEN TurnUncompressed(F, src, dicLimit)
        ELSE TurnLzma(F, src, dicLimit)

Enter(self) == [self |-> self, srcLen |-> 0, status |-> "NotSpecified",
                ret |-> FALSE, exc |-> FALSE]

RECURSIVE Turns(_, _, _, _)
Turns(F, src, dicLimit, finishMode) ==
    IF F.ret \/ F.exc THEN F ELSE Turns(Turn(F, src, dicLimit, finishMode), src, dicLimit, finishMode)

\* the whole call: the object, srcLen and status after it, exc if it threw
DecodeToDic(self, dicLimit, src, finishMode) ==
    Turns(Enter(self), src, dicLimit, finishMode)

\* destLen = decoder.decoder.m_dic.pos; return status != NeedsMoreInput, after
\* DecodeToDic (r); a throw leaves destLen = 0
OneShotResult(r) ==
    [invalid |-> FALSE, exc |-> r.exc,
     destLen |-> IF r.exc THEN 0 ELSE r.self.decoder.m_dic.pos,
     srcLen |-> r.srcLen, status |-> r.status,
     ret |-> r.status # "NeedsMoreInput", self |-> r.self]

\* Lzma2Decode(dest, destLen, src, srcLen, prop, finishMode, status): the
\* one-shot call.  invalid is the std::invalid_argument of the constructor,
\* which leaves the caller's status untouched.
Lzma2Decode(outSize, src, prop, finishMode) ==
    IF PropOutOfRange(prop)
    THEN [invalid |-> TRUE, exc |-> FALSE, destLen |-> 0, srcLen |-> 0,
          status |-> "NotSpecified", ret |-> FALSE, self |-> [state |-> "none"]]
    ELSE OneShotResult(DecodeToDic(Decoder2(prop, outSize), outSize, src, finishMode))


(***************************************************************************)
(* BufDecoder2.  The constructor allocates the internal dictionary of      *)
(* dicSize bytes and assigns m_dic.mem; m_dic.size is assigned nowhere     *)
(* (DecoderCore() {} leaves it indeterminate), so that DecodeToBuf reads   *)
(* an indeterminate value: uninit stands for the value it finds.  The      *)
(* bytes of the dictionary are those below m_dic.size.                     *)
(***************************************************************************)
BufDecoder2(prop, uninit) == Decoder2(prop, uninit)

\* the frame of DecodeToBuf: the object, what is left of outSize, srcLen and
\* destLen, the bytes copied to dest, status; ret for the return and exc for
\* a BadStream that DecodeToDic has thrown
BufEnter(self, outSize) ==
    [self |-> self, outSize |-> outSize, srcLen |-> 0, destLen |-> 0, dest |-> <<>>,
     status |-> "NotSpecified", ret |-> FALSE, exc |-> FALSE]

\* a bug to test the claims with: Dic.pos is wrapped one byte before the end
BufWrapEarly(self) ==
    IF self.decoder.m_dic.pos + 1 >= self.decoder.m_dic.size
    THEN [self EXCEPT !.decoder.m_dic.pos = 0] ELSE self

\* if (m_dic.pos == m_dic.size) m_dic.pos = 0
BufWrap(self) ==
    IF self.decoder.m_dic.pos = self.decoder.m_dic.size
    THEN [self EXCEPT !.decoder.m_dic.pos = 0] ELSE self

\* the turn of the for loop after DecodeToDic (r), which was entered at dicPos
BufAfter(B, dicPos, r) ==
    IF r.exc THEN [B EXCEPT !.self = r.self, !.status = r.status, !.exc = TRUE]
    ELSE [B EXCEPT !.self = r.self,
                   !.srcLen = @ + r.srcLen,
                   !.status = r.status,
                   !.dest = @ \o SubSeq(r.self.decoder.m_dic.mem, dicPos + 1,
                                        r.self.decoder.m_dic.pos),
                   !.destLen = @ + (r.self.decoder.m_dic.pos - dicPos),
                   !.outSize = @ - (r.self.decoder.m_dic.pos - dicPos),
                   !.ret = \/ r.self.decoder.m_dic.pos - dicPos = 0
                           \/ B.outSize - (r.self.decoder.m_dic.pos - dicPos) = 0]

\* one turn of the for loop, on the object after the wrap of Dic.pos (self)
BufTurn(B, self, src, finishMode) ==
    LET dicPos == self.decoder.m_dic.pos
        size == self.decoder.m_dic.size
        whole == B.outSize > size - dicPos
    IN  BufAfter(B, dicPos,
                 DecodeToDic(self, IF whole THEN size ELSE dicPos + B.outSize,
                             SubSeq(src, B.srcLen + 1, Len(src)),
                             IF whole THEN "Any" ELSE finishMode))

RECURSIVE BufTurns(_, _, _)
BufTurns(B, src, finishMode) ==
    IF B.ret \/ B.exc THEN B
    ELSE BufTurns(BufTurn(B, BufWrap(B.self), src, finishMode), src, finishMode)

\* DecodeToBuf(dest, destLen, src, srcLen, finishMode, status), with
\* destLen = outSize and srcLen = Len(src) at the entry
DecodeToBuf(self, outSize, src, finishMode) ==
    BufTurns(BufEnter(self, outSize), src, finishMode)


(***************************************************************************)
(* Input streams.  The chunks of LZMA data were produced by an LZMA range  *)
(* encoder; the comments give the symbols they hold.                       *)
(***************************************************************************)
\* one LZMA chunk (dictionary reset, lc 3 lp 0 pb 2): literals 'a' 'b'
StreamLits == <<224, 0, 1, 0, 6, 93, 0, 48, 152, 124, 0, 0, 0, 0>>
\* literal 'a', match of distance 1 and length 3 (a self-overlapping copy)
StreamMatch == <<224, 0, 3, 0, 6, 93, 0, 48, 193, 252, 0, 0, 0, 0>>
\* literal 'a', short rep
StreamShortRep == <<224, 0, 1, 0, 5, 93, 0, 48, 223, 252, 0, 0, 0>>
\* chunk 'a' 'b', then a chunk of mode 0 holding a match of distance 2, length 2
StreamCont == <<224, 0, 1, 0, 6, 93, 0, 48, 152, 124, 0, 0, 0,
                128, 0, 1, 0, 5, 0, 128, 15, 252, 0, 0, 0>>
\* chunk 'a' 'b', then a chunk of mode 1 (state reset) holding the literal 'c'
StreamStateReset == <<224, 0, 1, 0, 6, 93, 0, 48, 152, 124, 0, 0, 0,
                      160, 0, 0, 0, 5, 0, 49, 127, 252, 0, 0, 0>>
\* chunk 'a' 'b', then a chunk of mode 2 (new properties) holding the literal 'c'
StreamNewProp == <<224, 0, 1, 0, 6, 93, 0, 48, 152, 124, 0, 0, 0,
                   192, 0, 0, 0, 5, 93, 0, 49, 127, 252, 0, 0, 0>>
\* one LZMA chunk with lc 0 lp 0 pb 0: literal 'a'
StreamLc0 == <<224, 0, 0, 0, 5, 0, 0, 48, 127, 252, 0, 0, 0>>
\* 24 literals 'a' .. 'x': 27 packed bytes, more than LZMA_REQUIRED_INPUT_MAX
StreamLong == <<224, 0, 23, 0, 27, 93, 0, 48, 152, 136, 152, 62, 203, 226, 111, 52,
                179, 76, 17, 95, 25, 228, 189, 23, 58, 56, 1, 102, 162, 209, 88, 29,
                214, 221, 0>>
\* uncompressed chunks: "ab" with a dictionary reset, then "c" without
StreamCopy == <<1, 0, 1, 97, 98, 2, 0, 0, 99, 0>>
\* an uncompressed chunk "a", then an LZMA chunk of mode 2 holding 'c'
StreamCopyLzma == <<1, 0, 0, 97, 192, 0, 0, 0, 5, 93, 0, 49, 127, 252, 0, 0, 0>>
\* the empty stream
StreamEmpty == <<0>>

ValidStreams == {StreamLits, StreamMatch, StreamShortRep, StreamCont, StreamStateReset,
                 StreamNewProp, StreamLc0, StreamLong, StreamCopy, StreamCopyLzma,
                 StreamEmpty}

\* the bytes a valid stream decodes to
Payload(stream) ==
    CASE stream = StreamLits -> <<97, 98>>
      [] stream = StreamMatch -> <<97, 97, 97, 97>>
      [] stream = StreamShortRep -> <<97, 97>>
      [] stream = StreamCont -> <<97, 98, 97, 98>>
      [] stream = StreamStateReset -> <<97, 98, 99>>
      [] stream = StreamNewProp -> <<97, 98, 99>>
      [] stream = StreamLc0 -> <<97>>
      [] stream = StreamLong -> [i \in 1..24 |-> 96 + i]
      [] stream = StreamCopy -> <<97, 98, 99>>
      [] stream = StreamCopyLzma -> <<97, 99>>
      [] stream = StreamEmpty -> <<>>

\* corrupt streams
\* an uncompressed chunk without dictionary reset at the start of the stream
BadCopyNoReset == <<2, 0, 0, 99, 0>>
\* an LZMA chunk of mode 0 at the start of the stream
BadLzmaNoReset == <<128, 0, 1, 0, 5, 0, 128, 15, 252, 0, 0, 0>>
\* an uncompressed chunk "a", then an LZMA chunk of mode 1: no properties yet
BadNoProp == <<1, 0, 0, 97, 160, 0, 0, 0, 5, 0, 49, 127, 252, 0, 0, 0>>
\* an uncompressed chunk "a", then an LZMA chunk of mode 0: no state reset yet
BadNoState == <<1, 0, 0, 97, 128, 0, 0, 0, 5, 0, 49, 127, 252, 0, 0, 0>>
\* a first LZMA chunk with properties and state reset, but no dictionary reset
BadLzmaNoDic == <<192, 0, 0, 0, 5, 93, 0, 49, 127, 252, 0, 0, 0>>
\* a control byte that is no chunk type
BadControl == <<3, 0, 0, 99, 0>>
\* a properties byte with lc + lp > 4
BadProp == <<224, 0, 1, 0, 6, 44, 0, 48, 152, 124, 0, 0, 0, 0>>
\* StreamLits with the packed size declared 5 instead of 7
BadPackSmall == <<224, 0, 1, 0, 4, 93, 0, 48, 152, 124, 0, 0, 0, 0>>
\* StreamLits with the packed size declared 8 instead of 7
BadPackBig == <<224, 0, 1, 0, 7, 93, 0, 48, 152, 124, 0, 0, 0, 0, 0>>
\* StreamLits with the unpacked size declared 1 instead of 2
BadUnpackSmall == <<224, 0, 0, 0, 6, 93, 0, 48, 152, 124, 0, 0, 0, 0>>
\* StreamLits with the unpacked size declared 3 instead of 2
BadUnpackBig == <<224, 0, 2, 0, 6, 93, 0, 48, 152, 124, 0, 0, 0, 0>>
\* literal 'a', then a match of distance 6: before the start of the data
BadDistance == <<224, 0, 2, 0, 6, 93, 0, 48, 192, 32, 0, 0, 0, 0>>
\* literal 'a', then the end mark inside the chunk
BadEndMark == <<224, 0, 0, 0, 10, 93, 0, 48, 193, 251, 255, 255, 255, 224, 0, 0, 0, 0>>
\* the first byte of the range coder's data is not 0
BadRcInit == <<224, 0, 1, 0, 6, 93, 1, 48, 152, 124, 0, 0, 0, 0>>
\* the empty stream with two bytes after its end
BadTrailing == <<0, 0, 1>>

BadStreams == {BadCopyNoReset, BadLzmaNoReset, BadNoProp, BadNoState, BadLzmaNoDic, BadControl, BadProp,
               BadPackSmall, BadPackBig, BadUnpackSmall, BadUnpackBig, BadDistance,
               BadEndMark, BadRcInit, BadTrailing}

Streams == ValidStreams \cup BadStreams
\* the streams a caller starts on after a Reset
RestartStreams == {StreamLits, StreamCopy, BadCopyNoReset, BadLzmaNoReset}


(***************************************************************************)
(* The decoder driven by a caller.  dec is the Decoder2 object; a call of  *)
(* DecodeToDic is entered by Call and then runs one turn of its while loop *)
(* per step, until it returns or throws.  dicLimit, src, finishMode are    *)
(* the arguments of the call in progress (or of the last one), srcLen and  *)
(* status its reference parameters, exc what it threw.  rest is what the   *)
(* caller has left of its stream: every call is handed a prefix of it and  *)
(* the caller drops the srcLen bytes the call reports as consumed.         *)
(* Ghosts: entry (the dictionary at the entry of the call), errored (a     *)
(* call has thrown since the construction or the last Reset), nCalls,      *)
(* nResets, prop (the constructor's argument), ref (what a one-shot call  *)
(* gave, or the single call that a split run is compared with).            *)
(***************************************************************************)
VARIABLES dec, pc, dicLimit, src, finishMode, srcLen, status, exc, rest,
          entry, errored, nCalls, nResets, prop, ref

vars == <<dec, pc, dicLimit, src, finishMode, srcLen, status, exc, rest,
          entry, errored, nCalls, nResets, prop, ref>>

\* bounds of the model
MaxCalls == 2
MaxResets == 1
MaxPiece == 1
MaxDest == 1

\* the decoders of the model: <<prop, Dic.size>>, a dictionary buffer too small
\* for most of the streams and one that holds each of them
Configs == {<<0, 3>>, <<40, 30>>}
NoRef == [status |-> "NotSpecified"]
NoDecoder == [state |-> "none"]

Drop(seq, n) == SubSeq(seq, n + 1, Len(seq))
Dic == dec.decoder.m_dic

\* what a caller hands to a call: a few bytes, or all it has but a few
Pieces == {k \in 0..Len(rest) : k <= MaxPiece \/ Len(rest) - k <= MaxPiece}
\* the limits a caller may pass: Dic.pos <= dicLimit <= Dic.size
Limits == {l \in Dic.pos..Dic.size : l - Dic.pos <= MaxDest \/ l = Dic.size}

Init ==
    /\ \E c \in Configs : prop = c[1] /\ dec = Decoder2(c[1], c[2])
    /\ rest \in Streams
    /\ pc = "idle"
    /\ dicLimit = 0
    /\ src = <<>>
    /\ finishMode = "Any"
    /\ srcLen = 0
    /\ status = "NotSpecified"
    /\ exc = "none"
    /\ entry = [mem |-> dec.decoder.m_dic.mem, pos |-> 0]
    /\ errored = FALSE
    /\ nCalls = 0
    /\ nResets = 0
    /\ ref = NoRef

\* DecodeToDic(dicLimit, src, srcLen, finishMode, status) is entered
Call(k, limit, mode) ==
    /\ pc = "idle"
    /\ nCalls < MaxCalls
    /\ pc' = "loop"
    /\ dicLimit' = limit
    /\ src' = SubSeq(rest, 1, k)
    /\ finishMode' = mode
    /\ srcLen' = 0
    /\ status' = "NotSpecified"
    /\ exc' = "none"
    /\ entry' = [mem |-> Dic.mem, pos |-> Dic.pos]
    /\ nCalls' = nCalls + 1
    /\ UNCHANGED <<dec, rest, errored, nResets, prop, ref>>

\* the frame of the call in progress, and the state after one more turn of it
Frame == [self |-> dec, srcLen |-> srcLen, status |-> status, ret |-> FALSE, exc |-> FALSE]

After(G) ==
    /\ dec' = G.self
    /\ srcLen' = G.srcLen
    /\ status' = G.status
    /\ exc' = IF G.exc THEN "BadStream" ELSE "none"
    /\ pc' = IF G.ret \/ G.exc THEN "idle" ELSE "loop"
    /\ rest' = IF G.ret \/ G.exc THEN Drop(rest, G.srcLen) ELSE rest
    /\ errored' = (errored \/ G.exc)
    /\ UNCHANGED <<dicLimit, src, finishMode, entry, nCalls, nResets, prop, ref>>

LoopEnds ==
    \/ dec.state \in {"LZMA2_STATE_FINISHED", "LZMA2_STATE_ERROR"}
    \/ Dic.pos = dicLimit /\ finishMode = "Any"

\* the loop ends: FinishedWithMark, the throw of the state Error, NotFinished
LoopExit ==
    /\ pc = "loop"
    /\ LoopEnds
    /\ After(Turn(Frame, src, dicLimit, finishMode))

\* a turn that reads one byte of a chunk header, or finds none
HeaderTurn ==
    /\ pc = "loop"
    /\ ~LoopEnds
    /\ ~IsDataState(dec.state)
    /\ After(Turn(Frame, src, dicLimit, finishMode))

\* a turn in the data of an uncompressed chunk
UncompressedTurn ==
    /\ pc = "loop"
    /\ ~LoopEnds
    /\ IsDataState(dec.state)
    /\ isUncompressedState(dec)
    /\ After(Turn(Frame, src, dicLimit, finishMode))

\* a turn in the data of an LZMA chunk
LzmaTurn ==
    /\ pc = "loop"
    /\ ~LoopEnds
    /\ IsDataState(dec.state)
    /\ ~isUncompressedState(dec)
    /\ After(Turn(Frame, src, dicLimit, finishMode))

\* Reset(), after which the caller starts on a stream again
DoReset ==
    /\ pc = "idle"
    /\ nCalls > 0
    /\ nResets < MaxResets
    /\ dec' = Reset(dec)
    /\ rest' \in RestartStreams
    /\ errored' = FALSE
    /\ nResets' = nResets + 1
    /\ UNCHANGED <<pc, dicLimit, src, finishMode, srcLen, status, exc, entry, nCalls, prop,
                   ref>>

Next ==
    \/ \E k \in Pieces, limit \in Limits, mode \in FinishModes : Call(k, limit, mode)
    \/ LoopExit
    \/ HeaderTurn
    \/ UncompressedTurn
    \/ LzmaTurn
    \/ DoReset

Spec == Init /\ [][Next]_vars


(***************************************************************************)
(* The one-shot call.  Lzma2Decode is called once, on an input src, with   *)
(* an output buffer of dicLimit bytes; ref is what the caller gets back.   *)
(***************************************************************************)
MaxLen == 2
MaxOut == 3

\* the stream of one uncompressed chunk with dictionary reset, and the end
CopyStream(payload) ==
    LET n == Len(payload)
    IN  <<CONTROL_COPY_RESET_DIC, (n - 1) \div 256, (n - 1) % 256>> \o payload
            \o <<CONTROL_EOF>>

PayloadBytes == {0, 97, 255}
ShortPayloads == UNION {[1..n -> PayloadBytes] : n \in 1..MaxLen}
\* the largest payload of a chunk: unpackSize is 16 bits wide, plus 1
MaxChunk == 256 * 256
\* payloads whose size takes both bytes of the chunk header
LongPayloads == {[i \in 1..n |-> (7 * i) % 256] : n \in {256, 257, MaxChunk}}
Payloads == ShortPayloads \cup LongPayloads

IsPrefix(p, s) == Len(p) <= Len(s) /\ p = SubSeq(s, 1, Len(p))
Prefixes(s) == {SubSeq(s, 1, k) : k \in 0..Len(s)}

\* the streams that are cut short: LZMA chunks and short uncompressed chunks
CutStreams == ValidStreams \cup {CopyStream(p) : p \in ShortPayloads}

CopyStreams == {CopyStream(p) : p \in Payloads}
OneShotInputs == CopyStreams \cup UNION {Prefixes(s) : s \in CutStreams}
OneShotProps == {0, 40, 41, 255}
OutSizes == (0..MaxOut) \cup {24, 257, 258}

InitOneShot ==
    /\ prop \in OneShotProps
    /\ src \in OneShotInputs
    /\ dicLimit \in OutSizes \cup (IF Len(src) > MaxChunk THEN {MaxChunk} ELSE {})
    /\ finishMode \in FinishModes
    /\ dec = NoDecoder
    /\ pc = "oneshot"
    /\ srcLen = 0
    /\ status = "NotSpecified"
    /\ exc = "none"
    /\ rest = <<>>
    /\ entry = [mem |-> <<>>, pos |-> 0]
    /\ errored = FALSE
    /\ nCalls = 0
    /\ nResets = 0
    /\ ref = NoRef

\* what the call leaves to the caller (r)
Returned(r) ==
    /\ dec' = r.self
    /\ srcLen' = r.srcLen
    /\ status' = r.status
    /\ exc' = IF r.invalid THEN "invalid_argument"
              ELSE IF r.exc THEN "BadStream" ELSE "none"
    /\ errored' = r.exc
    /\ ref' = [destLen |-> r.destLen, ret |-> r.ret]

OneShot ==
    /\ pc = "oneshot"
    /\ Returned(Lzma2Decode(dicLimit, src, prop, finishMode))
    /\ pc' = "oneshot_done"
    /\ nCalls' = 1
    /\ UNCHANGED <<dicLimit, src, finishMode, rest, entry, nResets, prop>>

NextOneShot == OneShot

SpecOneShot == InitOneShot /\ [][NextOneShot]_vars


(***************************************************************************)
(* The split run.  A decoder fresh from its constructor is given a stream  *)
(* in two pieces, by two calls of DecodeToDic with the same dicLimit and   *)
(* finishMode: the first call gets the first k bytes, the second call the  *)
(* bytes the first one has left and the rest of the stream.  A call that   *)
(* throws ends the run.  ref is what one call on the whole stream gives    *)
(* on a decoder in the same state; srcLen is the total of the bytes the    *)
(* calls of the run have consumed.                                         *)
(***************************************************************************)
InitSplit ==
    /\ \E c \in Configs :
          /\ prop = c[1]
          /\ dec = Decoder2(c[1], c[2])
          /\ dicLimit \in {l \in 0..c[2] : l <= MaxOut \/ l = c[2]}
    /\ rest \in Streams
    /\ finishMode \in FinishModes
    /\ pc = "split_new"
    /\ src = <<>>
    /\ srcLen = 0
    /\ status = "NotSpecified"
    /\ exc = "none"
    /\ entry = [mem |-> dec.decoder.m_dic.mem, pos |-> 0]
    /\ errored = FALSE
    /\ nCalls = 0
    /\ nResets = 0
    /\ ref = NoRef

\* what the one call on the whole stream leaves (G)
WholeReturned(G) ==
    ref' = [input |-> rest,
            mem |-> G.self.decoder.m_dic.mem, pos |-> G.self.decoder.m_dic.pos,
            srcLen |-> G.srcLen, status |-> G.status,
            exc |-> IF G.exc THEN "BadStream" ELSE "none"]

\* the one call on the whole stream, on a decoder of its own
Whole ==
    /\ pc = "split_new"
    /\ WholeReturned(DecodeToDic(dec, dicLimit, rest, finishMode))
    /\ pc' = "split_first"
    /\ UNCHANGED <<dec, dicLimit, src, finishMode, srcLen, status, exc, rest, entry,
                   errored, nCalls, nResets, prop>>

\* what a call of the split run leaves (G): the run ends with its second call
\* or with a throw
PieceReturned(G) ==
    /\ dec' = G.self
    /\ srcLen' = srcLen + G.srcLen
    /\ status' = G.status
    /\ exc' = IF G.exc THEN "BadStream" ELSE "none"
    /\ rest' = Drop(rest, G.srcLen)
    /\ errored' = G.exc
    /\ pc' = IF G.exc \/ nCalls = 1 THEN "split_done" ELSE "split_second"
    /\ nCalls' = nCalls + 1

\* the first call, on the first k bytes of the stream
First(k) ==
    /\ pc = "split_first"
    /\ src' = SubSeq(rest, 1, k)
    /\ PieceReturned(DecodeToDic(dec, dicLimit, SubSeq(rest, 1, k), finishMode))
    /\ UNCHANGED <<dicLimit, finishMode, entry, nResets, prop, ref>>

\* the second call, on all that is left of the stream
Second ==
    /\ pc = "split_second"
    /\ src' = rest
    /\ PieceReturned(DecodeToDic(dec, dicLimit, rest, finishMode))
    /\ UNCHANGED <<dicLimit, finishMode, entry, nResets, prop, ref>>

NextSplit ==
    \/ Whole
    \/ \E k \in 0..Len(rest) : First(k)
    \/ Second

SpecSplit == InitSplit /\ [][NextSplit]_vars


(***************************************************************************)
(* The construction.  Decoder2(prop) is constructed once, for a prop of     *)
(* one byte, and the caller attaches a dictionary buffer of dicLimit bytes  *)
(* to the object; the constructor throws std::invalid_argument for a prop   *)
(* out of range and then there is no object.                                *)
(***************************************************************************)
AllProps == 0..255
BufSizes == {0, 3}

InitCreate ==
    /\ prop \in AllProps
    /\ dicLimit \in BufSizes
    /\ dec = NoDecoder
    /\ pc = "create"
    /\ src = <<>>
    /\ finishMode = "Any"
    /\ srcLen = 0
    /\ status = "NotSpecified"
    /\ exc = "none"
    /\ rest = <<>>
    /\ entry = [mem |-> <<>>, pos |-> 0]
    /\ errored = FALSE
    /\ nCalls = 0
    /\ nResets = 0
    /\ ref = NoRef

\* Decoder2 decoder(prop)
Create ==
    /\ pc = "create"
    /\ IF PropOutOfRange(prop)
       THEN /\ exc' = "invalid_argument"
            /\ pc' = "create_failed"
            /\ dec' = dec
       ELSE /\ exc' = "none"
            /\ pc' = "created"
            /\ dec' = Decoder2(prop, dicLimit)
    /\ UNCHANGED <<dicLimit, src, finishMode, srcLen, status, rest, entry, errored,
                   nCalls, nResets, prop, ref>>

NextCreate == Create

SpecCreate == InitCreate /\ [][NextCreate]_vars


(***************************************************************************)
(* The framer fed byte by byte.  A caller hands the decoder one byte, or   *)
(* none, per call: any property byte, any control byte of an uncompressed  *)
(* chunk and the first and the last control byte of each LZMA mode, a byte *)
(* of SizeBytes where the framer reads a size, no byte in the data of a    *)
(* chunk.  The calls run turn by turn, as above.                           *)
(***************************************************************************)
Bytes == 0..255
ControlBytes == (0..127) \cup {128, 159, 160, 191, 192, 223, 224, 255}
SizeBytes == {0, 255}
FramerBuf == 1

FeedInputs ==
    {<<>>} \cup
    CASE dec.state = "LZMA2_STATE_CONTROL" -> {<<b>> : b \in ControlBytes}
      [] dec.state = "LZMA2_STATE_PROP" -> {<<b>> : b \in Bytes}
      [] dec.state \in {"LZMA2_STATE_UNPACK0", "LZMA2_STATE_UNPACK1",
                        "LZMA2_STATE_PACK0", "LZMA2_STATE_PACK1"} -> {<<b>> : b \in SizeBytes}
      [] dec.state \in {"LZMA2_STATE_FINISHED", "LZMA2_STATE_ERROR"} -> {<<CONTROL_EOF>>}
      [] OTHER -> {}

InitFramer ==
    /\ prop = 0
    /\ dec = Decoder2(0, FramerBuf)
    /\ rest = <<>>
    /\ pc = "idle"
    /\ dicLimit = 0
    /\ src = <<>>
    /\ finishMode = "Any"
    /\ srcLen = 0
    /\ status = "NotSpecified"
    /\ exc = "none"
    /\ entry = [mem |-> dec.decoder.m_dic.mem, pos |-> 0]
    /\ errored = FALSE
    /\ nCalls = 0
    /\ nResets = 0
    /\ ref = NoRef

\* DecodeToDic(dicLimit, src, srcLen, finishMode, status) is entered with the
\* input s; a caller that leaves no room for output and asks for no end (the
\* finish mode Any) hands no input
Feed(s, limit, mode) ==
    /\ pc = "idle"
    /\ (limit = Dic.pos /\ mode = "Any") => s = <<>>
    /\ pc' = "loop"
    /\ dicLimit' = limit
    /\ src' = s
    /\ finishMode' = mode
    /\ srcLen' = 0
    /\ status' = "NotSpecified"
    /\ exc' = "none"
    /\ entry' = [mem |-> Dic.mem, pos |-> Dic.pos]
    /\ nCalls' = 1
    /\ UNCHANGED <<dec, rest, errored, nResets, prop, ref>>

NextFramer ==
    \/ \E s \in FeedInputs, limit \in Limits, mode \in FinishModes : Feed(s, limit, mode)
    \/ LoopExit
    \/ HeaderTurn
    \/ UncompressedTurn
    \/ LzmaTurn

SpecFramer == InitFramer /\ [][NextFramer]_vars


(***************************************************************************)
(* The buffered decoder driven by a caller.  dec is the BufDecoder2        *)
(* object; every call of DecodeToBuf is handed a prefix of what the caller *)
(* has left of its stream (rest) and an output buffer of dicLimit bytes;   *)
(* ref holds the bytes the call has put there, with the ghosts out (the    *)
(* bytes of all the calls, one after the other), input (the stream) and    *)
(* clean (the decoder had not thrown when the call was entered).           *)
(***************************************************************************)
\* the values m_dic.size may hold after the construction with prop 0 (dicSize
\* 4096): nothing, less than the buffer, the size of the buffer, more
UninitSizes == {0, 1, 4096, 4097}
BufStreams == {StreamCopy, StreamLits, StreamMatch, StreamCont, StreamEmpty}
BufOutSizes == {0, 1, 2, 5}

InitBuf ==
    /\ prop = 0
    /\ \E uninit \in UninitSizes : dec = BufDecoder2(0, uninit)
    /\ rest \in BufStreams
    /\ pc = "buf"
    /\ dicLimit = 0
    /\ src = <<>>
    /\ finishMode = "Any"
    /\ srcLen = 0
    /\ status = "NotSpecified"
    /\ exc = "none"
    /\ entry = [mem |-> dec.decoder.m_dic.mem, pos |-> 0]
    /\ errored = FALSE
    /\ nCalls = 0
    /\ nResets = 0
    /\ ref = [dest |-> <<>>, destLen |-> 0, out |-> <<>>, input |-> rest, clean |-> TRUE]

\* what a call of DecodeToBuf leaves (B); out is all that the calls have put
\* into the caller's buffers so far, clean says that no call before this one
\* has thrown
BufReturned(B) ==
    /\ dec' = B.self
    /\ srcLen' = B.srcLen
    /\ status' = B.status
    /\ exc' = IF B.exc THEN "BadStream" ELSE "none"
    /\ errored' = (errored \/ B.exc)
    /\ rest' = Drop(rest, B.srcLen)
    /\ ref' = [dest |-> B.dest, destLen |-> B.destLen, out |-> ref.out \o B.dest,
               input |-> ref.input, clean |-> ~errored]

\* DecodeToBuf on the first k bytes of the stream, with room for outSize bytes
DecodeToBufCall(k, outSize, mode) ==
    /\ pc = "buf"
    /\ nCalls < MaxCalls
    /\ BufReturned(DecodeToBuf(dec, outSize, SubSeq(rest, 1, k), mode))
    /\ dicLimit' = outSize
    /\ src' = SubSeq(rest, 1, k)
    /\ finishMode' = mode
    /\ entry' = [mem |-> Dic.mem, pos |-> Dic.pos]
    /\ nCalls' = nCalls + 1
    /\ UNCHANGED <<pc, nResets, prop>>

NextBuf ==
    \E k \in Pieces, outSize \in BufOutSizes, mode \in FinishModes :
        DecodeToBufCall(k, outSize, mode)

SpecBuf == InitBuf /\ [][NextBuf]_vars


(***************************************************************************)
(* The calls run to their end.  A caller drives a Decoder2 turn by turn or *)
(* a BufDecoder2 call by call, as above, without Reset().  A call of       *)
(* DecodeToDic that has been entered goes on running: the decoder is used  *)
(* by one thread and the loop waits for nothing, so that the next turn of  *)
(* the loop is taken if there is one to take.  This is the weak fairness   *)
(* of TurnStep, WF_vars(TurnStep), written out as                          *)
(* []<>~ENABLED <<TurnStep>>_vars \/ []<><<TurnStep>>_vars with pc = "loop" *)
(* for ENABLED <<TurnStep>>_vars: Turn is defined on every frame, and a    *)
(* turn that would leave every variable as it is (a loop that runs for     *)
(* ever on the spot) is ruled out by the state predicate TurnProgresses    *)
(* below, not by this condition.                                           *)
(***************************************************************************)
\* the streams of the callers of Decoder2 here: a match cut by dicLimit, a
\* second chunk, uncompressed chunks, more than LZMA_REQUIRED_INPUT_MAX packed
\* bytes, data left after the chunk, the end mark inside a chunk
LiveStreams == {StreamMatch, StreamCont, StreamCopy, StreamLong, BadPackBig, BadEndMark}
\* the BufDecoder2 objects here: a window that every chunk wraps in, and the
\* window of dicSize bytes
LiveSizes == {1, 4096}
LiveBufStreams == {StreamCopy, StreamMatch}

InitCalls ==
    \/ Init /\ rest \in LiveStreams
    \/ InitBuf /\ Dic.size \in LiveSizes /\ rest \in LiveBufStreams

\* the next turn of the loop of the call in progress
TurnStep == LoopExit \/ HeaderTurn \/ UncompressedTurn \/ LzmaTurn

NextCalls ==
    \/ \E k \in Pieces, limit \in Limits, mode \in FinishModes : Call(k, limit, mode)
    \/ TurnStep
    \/ NextBuf

SpecCalls ==
    /\ InitCalls /\ [][NextCalls]_vars
    /\ []<>(pc # "loop") \/ []<><<TurnStep>>_vars


(***************************************************************************)
(* The claims                                                              *)
(***************************************************************************)
\* the bytes of the dictionary at the indices of S are as at the entry of the call
SameBytes(S) == \A i \in S : Dic.mem[i + 1] = entry.mem[i + 1]

\* C2: budget respect.  During and after every call entered with
\* Dic.pos <= dicLimit <= Dic.size, whether it returns or throws, Dic.pos stays
\* between its value at the entry and dicLimit, no byte of the dictionary
\* outside [Dic.pos at entry, dicLimit) is changed, srcLen is at most the
\* length of the supplied slice, and no byte beyond the slice is read.
C2_BudgetRespect ==
    nCalls > 0 =>
        /\ Dic.pos <= dicLimit
        /\ (nResets = 0 => entry.pos <= Dic.pos)
        /\ SameBytes((0..(entry.pos - 1)) \cup (dicLimit..(Dic.size - 1)))
        /\ srcLen <= Len(src)
        /\ dec.decoder.ub # "src_overread"

\* a call has filled its whole budget of output and left input unconsumed
C2_Witness ==
    /\ pc = "idle"
    /\ status = "NotFinished"
    /\ Dic.pos = dicLimit
    /\ entry.pos < Dic.pos
    /\ dicLimit < Dic.size
    /\ srcLen < Len(src)

C4_ErrorsSticky ==
    (errored /\ pc = "idle") => (dec.state = "LZMA2_STATE_ERROR" /\ exc = "BadStream")


\* the step writes to the dictionary
WritesDic ==
    \/ dec'.decoder.m_dic.mem # Dic.mem
    \/ dec'.decoder.m_dic.pos > Dic.pos

\* the step is a turn of the loop that has a byte of input to read
TurnWithInput == pc = "loop" /\ ~LoopEnds /\ srcLen < Len(src)

\* the step throws BadStream and writes nothing to the dictionary
Rejects == exc' = "BadStream" /\ ~WritesDic

\* the step is a turn of the loop that enters the data of an LZMA chunk
EntersLzmaData ==
    /\ pc = "loop" /\ ~LoopEnds
    /\ dec.state = "LZMA2_STATE_DATA"
    /\ ~isUncompressedState(dec)

\* the step reads the last byte of the sizes of an LZMA chunk without properties
ReadsLastSizeNoProp ==
    /\ TurnWithInput
    /\ dec.state = "LZMA2_STATE_PACK1"
    /\ ~isThereProp(getLzmaMode(dec))

\* C8: no chunk is processed while a required reset is outstanding.  A step
\* writes to the dictionary only if the dictionary has been reset since the
\* construction or the last Reset() (needInitDic is clear after the step, and
\* it is clear all along the data of a chunk once its first turn is done).  An
\* uncompressed chunk of control 2 whose data is entered while needInitDic is
\* set, an LZMA chunk of mode 0..2 whose data is entered while needInitDic is
\* set and an LZMA chunk of mode 0 whose data is entered while needInitState
\* is set are rejected by a BadStream with no byte written; the header of an
\* LZMA chunk without properties read while needInitProp is set leads to the
\* state Error, from which the call throws with no byte written.
C8_NoChunkBeforeReset ==
    [][ /\ WritesDic => ~dec'.needInitDic
        /\ dec.state = "LZMA2_STATE_DATA_CONT" => ~dec.needInitDic
        /\ (TurnWithInput /\ dec.state = "LZMA2_STATE_DATA" /\ dec.needInitDic
               /\ dec.control = CONTROL_COPY_NO_RESET)
            => Rejects
        /\ (EntersLzmaData /\ dec.needInitDic /\ getLzmaMode(dec) < 3) => Rejects
        /\ (EntersLzmaData /\ dec.needInitState /\ getLzmaMode(dec) = 0) => Rejects
        /\ (ReadsLastSizeNoProp /\ dec.needInitProp)
            => (dec'.state = "LZMA2_STATE_ERROR" /\ ~WritesDic)
        /\ (pc = "loop" /\ dec.state = "LZMA2_STATE_ERROR") => Rejects
      ]_vars

\* an uncompressed chunk without dictionary reset was rejected at its data,
\* while the dictionary still had to be reset
C8_Witness ==
    /\ pc = "idle"
    /\ exc = "BadStream"
    /\ dec.state = "LZMA2_STATE_DATA"
    /\ dec.control = CONTROL_COPY_NO_RESET
    /\ dec.needInitDic
    /\ srcLen < Len(src)

\* the step is a turn of the loop on the data of a chunk
DataTurn == pc = "loop" /\ IsDataState(dec.state)

\* C9: chunk sizes are exact.  Whenever a turn of the loop leaves the data of
\* a chunk for the state Control, unpackSize is 0 and, for an LZMA chunk,
\* packSize is 0 too; every turn on the data of a chunk that does not throw
\* takes off unpackSize the bytes it has written to the dictionary and, for an
\* LZMA chunk, off packSize the bytes it has consumed (an uncompressed chunk
\* consumes as many bytes as it writes); and neither counter goes below 0.
C9_ChunkSizesExact ==
    /\ [](dec.unpackSize >= 0 /\ dec.packSize >= 0
          /\ dec.decoder.ub # "size_underflow")
    /\ [][ /\ (DataTurn /\ dec'.state = "LZMA2_STATE_CONTROL")
               => /\ dec'.unpackSize = 0
                  /\ ~isUncompressedState(dec) => dec'.packSize = 0
           /\ (DataTurn /\ exc' = "none")
               => /\ dec.unpackSize - dec'.unpackSize
                         = dec'.decoder.m_dic.pos - Dic.pos
                  /\ IF isUncompressedState(dec)
                     THEN srcLen' - srcLen = dec'.decoder.m_dic.pos - Dic.pos
                     ELSE dec.packSize - dec'.packSize = srcLen' - srcLen
         ]_vars

\* a call has returned after an LZMA chunk was decoded to its end
C9_Witness ==
    /\ pc = "idle"
    /\ exc = "none"
    /\ dec.state = "LZMA2_STATE_CONTROL"
    /\ dec.control >= CONTROL_LZMA
    /\ Dic.pos > entry.pos
    /\ srcLen > 0

\* C10: a chunk-size mismatch is a data error.  A call that ends inside an
\* LZMA chunk whose packed bytes are all consumed (packSize = 0) while bytes
\* of its data are still to come (unpackSize > 0), with room left below
\* dicLimit, has thrown BadStream.
C10_MismatchIsError ==
    (/\ pc = "idle" /\ nCalls > 0
     /\ dec.state = "LZMA2_STATE_DATA_CONT"
     /\ ~isUncompressedState(dec)
     /\ dec.packSize = 0 /\ dec.unpackSize > 0
     /\ Dic.pos < dicLimit)
        => exc = "BadStream"

\* the output of the one-shot call: the first destLen bytes of the buffer
Output == SubSeq(Dic.mem, 1, ref.destLen)

\* C5: round trip of an uncompressed chunk.  The one-shot call with
\* finishMode End on the stream [1, (n-1) >> 8, (n-1) & 255, payload, 0],
\* with a valid prop and an output buffer of at least n bytes, returns the
\* payload (destLen = n), consumes the whole input and reports
\* FinishedWithMark.
C5_UncompressedRoundTrip ==
    (/\ pc = "oneshot_done"
     /\ src \in CopyStreams
     /\ finishMode = "End"
     /\ prop <= 40
     /\ dicLimit >= Len(src) - 4)
        => /\ exc = "none"
           /\ ref.ret
           /\ status = "FinishedWithMark"
           /\ ref.destLen = Len(src) - 4
           /\ Output = SubSeq(src, 4, Len(src) - 1)
           /\ srcLen = Len(src)

\* a payload of the largest size came back from a buffer of that size
C5_Witness ==
    /\ pc = "oneshot_done"
    /\ finishMode = "End"
    /\ Len(src) = MaxChunk + 4
    /\ src[2] = 255 /\ src[3] = 255
    /\ dicLimit = MaxChunk
    /\ status = "FinishedWithMark"
    /\ ref.destLen = MaxChunk
    /\ Output = SubSeq(src, 4, Len(src) - 1)

\* C6, as the claim states it: whatever prop, finishMode and the size of the
\* output buffer, the one-shot call on [0] reports FinishedWithMark with
\* destLen = 0.
C6_EmptyStreamAnyProp ==
    (pc = "oneshot_done" /\ src = StreamEmpty)
        => (status = "FinishedWithMark" /\ ref.destLen = 0)

\* C6: the empty stream.  The one-shot call on [0] with a prop in 0..40
\* reports FinishedWithMark with destLen = 0 and consumes the byte, unless it
\* is given an empty output buffer with finishMode Any: then it reports
\* NotFinished and consumes nothing.  With a prop above 40 it throws
\* invalid_argument and reports no status.
C6_EmptyStream ==
    (pc = "oneshot_done" /\ src = StreamEmpty)
        => /\ ref.destLen = 0
           /\ IF prop > 40
              THEN exc = "invalid_argument" /\ status = "NotSpecified"
              ELSE IF dicLimit = 0 /\ finishMode = "Any"
              THEN exc = "none" /\ status = "NotFinished" /\ srcLen = 0
              ELSE exc = "none" /\ status = "FinishedWithMark" /\ srcLen = 1
                   /\ ref.ret

\* the empty stream was decoded with the largest valid prop
C6_Witness ==
    /\ pc = "oneshot_done"
    /\ src = StreamEmpty
    /\ prop = 40
    /\ status = "FinishedWithMark"
    /\ ref.destLen = 0

\* src is a valid stream with bytes cut off its end
IsCutStream == \E s \in CutStreams : IsPrefix(src, s) /\ Len(src) < Len(s)

\* C7: truncation is detected.  The one-shot call with finishMode End on a
\* proper prefix of a valid stream never reports FinishedWithMark: it
\* reports NeedsMoreInput or throws BadStream.
C7_TruncationDetected ==
    (pc = "oneshot_done" /\ IsCutStream /\ finishMode = "End" /\ prop <= 40)
        => /\ status # "FinishedWithMark"
           /\ exc = "BadStream" \/ (exc = "none" /\ status = "NeedsMoreInput")

\* a stream cut inside its LZMA data, after some of it was decoded
C7_Witness ==
    /\ pc = "oneshot_done"
    /\ IsCutStream
    /\ finishMode = "End"
    /\ status = "NeedsMoreInput"
    /\ src # <<>> /\ src[1] >= CONTROL_LZMA
    /\ ref.destLen > 0


\* C1, as the claim states it: a stream fed to a fresh decoder in two pieces,
\* by two calls with the same dicLimit and finishMode, the second call getting
\* the bytes the first one has left and the second piece, leaves the same
\* bytes in the dictionary, the same Dic.pos, the same total of consumed bytes
\* and the same status or BadStream as one call on the whole stream, whatever
\* the bytes of the stream.
C1_ResumableAnyInput ==
    pc = "split_done" =>
        /\ Dic.mem = ref.mem
        /\ Dic.pos = ref.pos
        /\ srcLen = ref.srcLen
        /\ exc = ref.exc
        /\ exc = "none" => status = ref.status

\* the split run has stopped at a full output buffer with finishMode Any
StoppedAtLimit ==
    finishMode = "Any" /\ exc = "none" /\ status = "NotFinished" /\ Dic.pos = dicLimit

\* C1: resumability.  For a well-formed stream the split run leaves the same
\* bytes in the dictionary, the same Dic.pos, the same total of consumed bytes
\* and the same status or BadStream as the one call on the whole stream.  For
\* any stream it leaves the same dictionary bytes and Dic.pos; it throws only
\* if the one call throws, and returns the same status if neither throws.
\* Unless it has stopped at a full output buffer with finishMode Any, it
\* throws if the one call throws and, if not, has consumed as many bytes.
C1_Resumable ==
    pc = "split_done" =>
        /\ Dic.mem = ref.mem
        /\ Dic.pos = ref.pos
        /\ exc = "BadStream" => ref.exc = "BadStream"
        /\ (exc = "none" /\ ref.exc = "none") => status = ref.status
        /\ ~StoppedAtLimit => /\ exc = ref.exc
                              /\ exc = "none" => srcLen = ref.srcLen
        /\ ref.input \in ValidStreams => /\ exc = ref.exc
                                         /\ srcLen = ref.srcLen
                                         /\ exc = "none" => status = ref.status

\* the two literals of StreamLits came out of a run split inside the data of
\* the range coder: the second call had the last four bytes of the stream
C1_Witness ==
    /\ pc = "split_done"
    /\ ref.input = StreamLits
    /\ nCalls = 2
    /\ Len(src) = 4
    /\ status = "FinishedWithMark"
    /\ ref.status = "FinishedWithMark"
    /\ Dic.pos = 2
    /\ srcLen = Len(StreamLits)


\* the step ends a call: it returns or throws
EndsCall == pc = "loop" /\ pc' = "idle"

\* C11: the status of a call.  Every call of Decoder2::DecodeToDic either
\* throws BadStream or returns with the status FinishedWithMark, NotFinished
\* or NeedsMoreInput, never MaybeFinishedWithoutMark or NotSpecified; and it
\* returns FinishedWithMark exactly when the state of the framer is Finished.
C11_StatusOfCall ==
    [][ EndsCall =>
          \/ exc' = "BadStream"
          \/ /\ exc' = "none"
             /\ status' \in {"FinishedWithMark", "NotFinished", "NeedsMoreInput"}
             /\ status' = "FinishedWithMark" <=> dec'.state = "LZMA2_STATE_FINISHED"
      ]_vars

\* a call has decoded an LZMA chunk to its end, where the core reports
\* MaybeFinishedWithoutMark, and has returned at the end of its input
C11_Witness ==
    /\ pc = "idle"
    /\ exc = "none"
    /\ status = "NeedsMoreInput"
    /\ dec.state = "LZMA2_STATE_CONTROL"
    /\ dec.control >= CONTROL_LZMA
    /\ dec.decoder.remainLen = 0
    /\ Dic.pos > entry.pos
    /\ srcLen = Len(src)


\* C12: NotFinished.  A call returns NotFinished only at Dic.pos = dicLimit
\* with the finish mode Any; and a turn of the loop that finds the framer in
\* the state Data or DataCont with Dic.pos = dicLimit and the finish mode Any
\* returns NotFinished without consuming input or touching the decoder.
C12_NotFinished ==
    [][ /\ (EndsCall /\ exc' = "none" /\ status' = "NotFinished")
            => /\ Dic.pos = dicLimit
               /\ dec'.decoder.m_dic.pos = dicLimit
               /\ finishMode = "Any"
        /\ (pc = "loop" /\ IsDataState(dec.state) /\ Dic.pos = dicLimit
                /\ finishMode = "Any")
            => /\ EndsCall
               /\ exc' = "none"
               /\ status' = "NotFinished"
               /\ srcLen' = srcLen
               /\ dec' = dec
      ]_vars

\* a call has stopped inside the data of an LZMA chunk, at a full budget of
\* output, with input left
C12_Witness ==
    /\ pc = "idle"
    /\ exc = "none"
    /\ status = "NotFinished"
    /\ finishMode = "Any"
    /\ dec.state = "LZMA2_STATE_DATA_CONT"
    /\ ~isUncompressedState(dec)
    /\ Dic.pos = dicLimit
    /\ Dic.pos > entry.pos
    /\ srcLen < Len(src)


\* the states of the framer in which it reads a byte of a chunk header
HeaderStates ==
    {"LZMA2_STATE_CONTROL", "LZMA2_STATE_UNPACK0", "LZMA2_STATE_UNPACK1",
     "LZMA2_STATE_PACK0", "LZMA2_STATE_PACK1", "LZMA2_STATE_PROP"}

\* the step is a turn of the loop in a header state with no input left
HeaderAtEndOfInput == pc = "loop" /\ dec.state \in HeaderStates /\ srcLen = Len(src)

\* C13, as the claim states it: in a header state with no input left the call
\* returns NeedsMoreInput, whatever Dic.pos, dicLimit and the finish mode.
C13_HeaderNeedsInputAlways ==
    [][ HeaderAtEndOfInput
            => (EndsCall /\ exc' = "none" /\ status' = "NeedsMoreInput")
      ]_vars

\* C13: a header at the end of the input.  In a header state with no input
\* left the call returns without consuming input or touching the decoder; it
\* returns NotFinished if Dic.pos = dicLimit and the finish mode is Any, and
\* NeedsMoreInput otherwise.
C13_HeaderNeedsInput ==
    [][ HeaderAtEndOfInput
            => /\ EndsCall
               /\ exc' = "none"
               /\ srcLen' = srcLen
               /\ dec' = dec
               /\ status' = IF Dic.pos = dicLimit /\ finishMode = "Any"
                            THEN "NotFinished" ELSE "NeedsMoreInput"
      ]_vars

\* a call with the finish mode End and no room for output has returned
\* NeedsMoreInput inside the header of the second chunk of a stream
C13_Witness ==
    /\ pc = "idle"
    /\ exc = "none"
    /\ status = "NeedsMoreInput"
    /\ dec.state \in HeaderStates \ {"LZMA2_STATE_CONTROL"}
    /\ finishMode = "End"
    /\ Dic.pos = dicLimit
    /\ Dic.pos > 0
    /\ srcLen = Len(src)


\* the step is a turn of the loop that reads the byte CONTROL_EOF in the
\* state Control
ReadsEof ==
    /\ TurnWithInput
    /\ dec.state = "LZMA2_STATE_CONTROL"
    /\ src[srcLen + 1] = CONTROL_EOF

\* C14: the end of the stream.  The framer gets to the state Finished only by
\* a turn that consumes the byte 0 in the state Control; such a turn always
\* leaves it in the state Finished; and the next turn returns
\* FinishedWithMark without consuming a byte or touching the decoder.
C14_Finished ==
    [][ /\ (dec.state # "LZMA2_STATE_FINISHED" /\ dec'.state = "LZMA2_STATE_FINISHED")
            => (ReadsEof /\ srcLen' = srcLen + 1)
        /\ ReadsEof
            => (dec'.state = "LZMA2_STATE_FINISHED" /\ srcLen' = srcLen + 1 /\ pc' = "loop")
        /\ (pc = "loop" /\ dec.state = "LZMA2_STATE_FINISHED")
            => /\ EndsCall
               /\ exc' = "none"
               /\ status' = "FinishedWithMark"
               /\ srcLen' = srcLen
               /\ dec' = dec
      ]_vars

\* a call has returned FinishedWithMark and has left the bytes after the end
\* mark unconsumed
C14_Witness ==
    /\ pc = "idle"
    /\ exc = "none"
    /\ status = "FinishedWithMark"
    /\ dec.state = "LZMA2_STATE_FINISHED"
    /\ src[srcLen] = CONTROL_EOF
    /\ srcLen < Len(src)


\* C15: the construction.  For prop > 40 the constructor throws
\* invalid_argument and there is no decoder.  For prop in 0..39 the decoder
\* has dicSize = (2 + prop mod 2) * 2^(prop div 2 + 11), a value below 2^32
\* (its high and low 16 bits are compared), and for prop = 40 it has
\* dicSize = 2^32 - 1.  Every decoder constructed has lc = 4, lp = 0, pb = 0.
C15_Construction ==
    /\ pc = "create_failed" => (prop > 40 /\ exc = "invalid_argument" /\ dec = NoDecoder)
    /\ pc = "created" =>
        /\ prop <= 40
        /\ exc = "none"
        /\ dec.decoder.m_properties.lc = 4
        /\ dec.decoder.m_properties.lp = 0
        /\ dec.decoder.m_properties.pb = 0
        /\ prop = 40 => dec.decoder.m_properties.dicSize = <<65535, 65535>>
        /\ prop < 40 =>
            LET base == 2 + (prop % 2)
                k == prop \div 2 + 11
            IN  IF k < 16
                THEN dec.decoder.m_properties.dicSize
                         = <<(base * Pow2(k)) \div 65536, (base * Pow2(k)) % 65536>>
                ELSE /\ base * Pow2(k - 16) < 65536
                     /\ dec.decoder.m_properties.dicSize = <<base * Pow2(k - 16), 0>>

\* the decoder of the largest dictionary size given by the formula:
\* prop 39, dicSize 3 * 2^30
C15_Witness ==
    /\ pc = "created"
    /\ prop = 39
    /\ dec.decoder.m_properties.dicSize = <<49152, 0>>
    /\ dec.state = "LZMA2_STATE_CONTROL"


\* the step is a turn of the loop that reads a byte in the state Prop
ReadsProp == TurnWithInput /\ dec.state = "LZMA2_STATE_PROP"

\* lc, lp and pb of the decoder
Lclppb(self) ==
    <<self.decoder.m_properties.lc, self.decoder.m_properties.lp,
      self.decoder.m_properties.pb>>

\* C16: the property byte.  A byte b read in the state Prop takes the framer
\* to the state Error if b >= 225 or if lc + lp > 4 for lc = b mod 9 and
\* lp = (b div 9) mod 5: lc, lp and needInitProp are left as they were (pb is
\* b div 45 if b < 225).  Any other byte installs lc, lp and pb = b div 45,
\* clears needInitProp and takes the framer to the state Data.  In every
\* state lc + lp <= 4 and pb <= 4, and the table of probabilities, allocated
\* for lc + lp = 4, has at least 1846 + 768 * 2^(lc + lp) entries; no access
\* to it is out of bounds.
C16_PropertyByte ==
    /\ [](/\ Lclppb(dec)[1] + Lclppb(dec)[2] <= 4
          /\ Lclppb(dec)[3] <= 4
          /\ calcProbSize(LC_PLUS_LP_MAX)
                 >= 1846 + 768 * Pow2(Lclppb(dec)[1] + Lclppb(dec)[2])
          /\ dec.decoder.ub # "probs_out_of_bounds")
    /\ [][ ReadsProp =>
             LET b == src[srcLen + 1]
                 lc == b % 9
                 lp == (b \div 9) % 5
             IN  /\ srcLen' = srcLen + 1
                 /\ IF b >= 225 \/ lc + lp > 4
                    THEN /\ dec'.state = "LZMA2_STATE_ERROR"
                         /\ Lclppb(dec')[1] = Lclppb(dec)[1]
                         /\ Lclppb(dec')[2] = Lclppb(dec)[2]
                         /\ Lclppb(dec')[3] = IF b >= 225 THEN Lclppb(dec)[3] ELSE b \div 45
                         /\ dec'.needInitProp = dec.needInitProp
                    ELSE /\ dec'.state = "LZMA2_STATE_DATA"
                         /\ Lclppb(dec') = <<lc, lp, b \div 45>>
                         /\ ~dec'.needInitProp
         ]_vars

\* the property byte 224 (lc = 8, lp = 4, pb = 4) was rejected after pb was
\* set, and the call has thrown
C16_Witness ==
    /\ pc = "idle"
    /\ exc = "BadStream"
    /\ src = <<224>>
    /\ srcLen = 1
    /\ dec.state = "LZMA2_STATE_ERROR"
    /\ dec.needInitProp
    /\ Lclppb(dec) = <<4, 0, 4>>


\* the step is a turn of the loop that reads a byte of 0x03..0x7F in the
\* state Control
ReadsReserved ==
    /\ TurnWithInput
    /\ dec.state = "LZMA2_STATE_CONTROL"
    /\ src[srcLen + 1] \in 3..127

\* C17: a reserved control byte.  A byte of 0x03..0x7F read in the state
\* Control takes the framer to the state Error, with no write to the
\* dictionary; in the state Error the next turn of the same call throws
\* BadStream, with no write to the dictionary and no byte consumed; the state
\* Error is never left, so every later call throws BadStream at its first
\* turn.
C17_ReservedControl ==
    [][ /\ ReadsReserved
            => (dec'.state = "LZMA2_STATE_ERROR" /\ pc' = "loop" /\ ~WritesDic)
        /\ (pc = "loop" /\ dec.state = "LZMA2_STATE_ERROR")
            => (EndsCall /\ exc' = "BadStream" /\ srcLen' = srcLen /\ dec' = dec)
        /\ dec.state = "LZMA2_STATE_ERROR" => dec'.state = "LZMA2_STATE_ERROR"
      ]_vars

\* a call on a decoder that had read the control byte 0x7F has thrown without
\* reading the byte it was given
C17_Witness ==
    /\ pc = "idle"
    /\ exc = "BadStream"
    /\ dec.state = "LZMA2_STATE_ERROR"
    /\ dec.control = 127
    /\ src = <<CONTROL_EOF>>
    /\ srcLen = 0
    /\ \A i \in 1..Dic.size : Dic.mem[i] = NoByte


\* the step is a turn of the loop that enters the data of a chunk
EntersData == pc = "loop" /\ ~LoopEnds /\ dec.state = "LZMA2_STATE_DATA"

\* the byte b is a property byte that UpdateState accepts
ValidPropByte(b) == b < 225 /\ (b % 9) + ((b \div 9) % 5) <= 4

\* C18: the reset discipline of the flags.  needInitDic goes from set to
\* clear only in a turn that enters the data of an LZMA chunk of mode 3 or of
\* an uncompressed chunk of control 1; needInitState goes from set to clear
\* only in a turn that enters the data of an LZMA chunk of mode 1, 2 or 3;
\* needInitProp goes from set to clear only in a turn that consumes a valid
\* property byte in the state Prop.
C18_ResetDiscipline ==
    [][ /\ (dec.needInitDic /\ ~dec'.needInitDic)
            => /\ EntersData
               /\ IF isUncompressedState(dec) THEN dec.control = CONTROL_COPY_RESET_DIC
                  ELSE getLzmaMode(dec) = 3
        /\ (dec.needInitState /\ ~dec'.needInitState)
            => (EntersData /\ ~isUncompressedState(dec) /\ getLzmaMode(dec) >= 1)
        /\ (dec.needInitProp /\ ~dec'.needInitProp)
            => (ReadsProp /\ ValidPropByte(src[srcLen + 1]) /\ srcLen' = srcLen + 1)
      ]_vars

\* a call has gone through an uncompressed chunk with dictionary reset and
\* into an LZMA chunk with new properties: the three flags are clear
C18_Witness ==
    /\ pc = "idle"
    /\ exc = "none"
    /\ dec.control = 192
    /\ dec.state = "LZMA2_STATE_DATA_CONT"
    /\ ~dec.needInitDic
    /\ ~dec.needInitState
    /\ ~dec.needInitProp
    /\ Dic.pos > 0


\* the step is a Reset()
ResetStep == nResets' # nResets

\* the fields of the decoder that the constructor defines, but lc, lp and pb
FreshFields(self) ==
    [state |-> self.state,
     needInitDic |-> self.needInitDic,
     needInitState |-> self.needInitState,
     needInitProp |-> self.needInitProp,
     pos |-> self.decoder.m_dic.pos,
     processedPos |-> self.decoder.processedPos,
     checkDicSize |-> self.decoder.checkDicSize,
     remainLen |-> self.decoder.remainLen,
     tempBufSize |-> self.decoder.tempBufSize,
     needFlush |-> self.decoder.needFlush,
     coreNeedInitState |-> self.decoder.needInitState,
     dicSize |-> self.decoder.m_properties.dicSize]

\* C19, as the claim states it: after Reset(), from any state, the state of
\* the framer, the three flags, Dic.pos, processedPos, checkDicSize,
\* remainLen, tempBufSize, needFlush, lc, lp and pb are as the constructor
\* left them.
C19_ResetRestoresAll ==
    [][ ResetStep
            => /\ FreshFields(dec') = FreshFields(Decoder2(prop, Dic.size))
               /\ Lclppb(dec') = Lclppb(Decoder2(prop, Dic.size))
      ]_vars

\* C19: Reset().  After Reset(), from any state, the state of the framer, the
\* three flags, Dic.pos, processedPos, checkDicSize, remainLen, tempBufSize
\* and needFlush are as the constructor left them; lc, lp and pb are as they
\* were before the Reset().  The framer is in the data of an LZMA chunk only
\* with needInitProp clear, that is after a property byte read since the
\* construction or the last Reset().
C19_Reset ==
    /\ [][ ResetStep
               => /\ FreshFields(dec') = FreshFields(Decoder2(prop, Dic.size))
                  /\ Lclppb(dec') = Lclppb(dec)
         ]_vars
    /\ []((IsDataState(dec.state) /\ ~isUncompressedState(dec)) => ~dec.needInitProp)

\* a Reset() after the property byte 0x5d (lc 3, lp 0, pb 2) was installed
\* and bytes were written: the caller has not started on its next stream
C19_Witness ==
    /\ pc = "idle"
    /\ nResets = 1
    /\ rest = StreamCopy
    /\ dec.state = "LZMA2_STATE_CONTROL"
    /\ dec.needInitProp
    /\ Dic.pos = 0
    /\ Dic.mem[1] # NoByte
    /\ Lclppb(dec) = <<3, 0, 2>>


\* C20: the window of the buffered decoder.  After BufDecoder2(prop) the
\* window is defined, with Dic.size = dicSize, the size of the internal
\* buffer, and Dic.pos = 0; and Dic.pos <= Dic.size before and after every
\* call of DecodeToBuf.
C20_BufferedWindow ==
    pc = "buf" =>
        /\ Dic.size = ToInt(dec.decoder.m_properties.dicSize)
        /\ nCalls = 0 => Dic.pos = 0
        /\ Dic.pos <= Dic.size


\* C21, as the claim states it: after every call of DecodeToBuf on a decoder
\* that has not thrown before, whether the call returns or throws, destLen
\* and srcLen are at most the values supplied, dest holds destLen bytes, and
\* the bytes the calls have put into dest are all the bytes decoded into the
\* dictionary (processedPos of them since the reset of the dictionary at the
\* start of the stream), in the order of the decompressed stream.
C21_CopiesAllDecoded ==
    (pc = "buf" /\ nCalls > 0) =>
        /\ ref.destLen <= dicLimit
        /\ srcLen <= Len(src)
        /\ Len(ref.dest) = ref.destLen
        /\ ref.clean => Len(ref.out) = dec.decoder.processedPos
        /\ (ref.clean /\ dec.decoder.ub = "none") => IsPrefix(ref.out, Payload(ref.input))

\* C21: the copy to dest.  After every call of DecodeToBuf destLen and srcLen
\* are at most the values supplied and dest holds destLen bytes; on a decoder
\* that has not thrown before, the bytes the calls have put into dest are the
\* first bytes of the decompressed stream, in its order, also when Dic.pos
\* wraps during the call; after a call that returns they are all the bytes
\* decoded into the dictionary, while a call that throws has not copied the
\* bytes that its last DecodeToDic has decoded.
C21_CopyToDest ==
    (pc = "buf" /\ nCalls > 0) =>
        /\ ref.destLen <= dicLimit
        /\ srcLen <= Len(src)
        /\ Len(ref.dest) = ref.destLen
        /\ ref.clean => Len(ref.out) <= dec.decoder.processedPos
        /\ ~errored => Len(ref.out) = dec.decoder.processedPos
        /\ (ref.clean /\ dec.decoder.ub = "none") => IsPrefix(ref.out, Payload(ref.input))

\* a call has given the caller three bytes through a window of one byte:
\* Dic.pos has wrapped twice during the call
C21_Witness ==
    /\ pc = "buf"
    /\ exc = "none"
    /\ Dic.size = 1
    /\ ref.destLen = 3
    /\ ref.dest = Payload(ref.input)
    /\ dec.decoder.processedPos = 3


\* what the call in progress has left: the input not consumed and the room
\* below dicLimit
Left(self, n) == (Len(src) - n) + (dicLimit - self.decoder.m_dic.pos)

\* 1 in the data of a chunk, 0 in a header
Rank(self) == IF IsDataState(self.state) THEN 1 ELSE 0

\* the next turn of the loop of DecodeToDic returns, throws, or consumes
\* input, writes output or changes the state of the framer, and then it makes
\* the pair (Left, Rank), a pair of naturals, smaller in the lexicographic
\* order
TurnProgresses ==
    pc = "loop" =>
        \E G \in {Turn(Frame, src, dicLimit, finishMode)} :
            \/ G.ret \/ G.exc
            \/ /\ \/ G.srcLen > srcLen
                   \/ G.self.decoder.m_dic.pos > Dic.pos
                   \/ G.self.state # dec.state
               /\ Left(G.self, G.srcLen) >= 0
               /\ \/ Left(G.self, G.srcLen) < Left(dec, srcLen)
                  \/ /\ Left(G.self, G.srcLen) = Left(dec, srcLen)
                     /\ Rank(G.self) < Rank(dec)

\* the turn of the core's loop from the frame f to the frame g has returned,
\* thrown, found the end mark, consumed input or written output
CoreTurnProgress(f, g) ==
    \/ g.ret \/ g.exc
    \/ g.p.remainLen = kMatchSpecLenStart
    \/ g.srcLen > f.srcLen
    \/ g.p.m_dic.pos > f.p.m_dic.pos

\* every turn of the core's loop from the frame f on has made progress, and
\* what is left of input and output room has not grown
RECURSIVE CoreLoopProgresses(_, _, _, _)
CoreLoopProgresses(f, inp, limit, mode) ==
    IF f.ret \/ f.exc \/ f.p.remainLen = kMatchSpecLenStart THEN TRUE
    ELSE \E g \in {CoreTurn(f, inp, limit, mode)} :
            /\ CoreTurnProgress(f, g)
            /\ g.srcLen >= f.srcLen /\ g.srcLen <= Len(inp)
            /\ g.p.m_dic.pos >= f.p.m_dic.pos
            /\ CoreLoopProgresses(g, inp, limit, mode)

\* the same for the call of the core that a turn of the framer makes in the
\* data of an LZMA chunk, on the bytes inp and up to limit
LzmaCallProgresses(self, inp, limit, mode) ==
    \/ self.state = "LZMA2_STATE_DATA"
          /\ LzmaResetMissing(self, getLzmaMode(self) = 3, getLzmaMode(self) > 0)
    \/ \E f \in {CoreEnter(IF self.state = "LZMA2_STATE_DATA"
                           THEN InitDicAndState(self.decoder, getLzmaMode(self) = 3,
                                                getLzmaMode(self) > 0)
                           ELSE self.decoder,
                           limit, inp)} :
          CoreLoopProgresses(f, inp, limit, mode)

\* the turn of the loop of DecodeToBuf from the frame B to the frame B1 has
\* returned, thrown, or filled some of what was left of dest and no more
BufTurnProgress(B, B1) ==
    \/ B1.ret \/ B1.exc
    \/ 0 < B1.outSize /\ B1.outSize < B.outSize

RECURSIVE BufLoopProgresses(_, _, _)
BufLoopProgresses(B, inp, mode) ==
    IF B.ret \/ B.exc THEN TRUE
    ELSE \E B1 \in {BufTurn(B, BufWrap(B.self), inp, mode)} :
            /\ BufTurnProgress(B, B1)
            /\ B1.outSize >= 0
            /\ BufLoopProgresses(B1, inp, mode)

\* the turns of the loop of DecodeToBuf make progress in every call that the
\* caller may make next
BufCallsProgress ==
    (pc = "buf" /\ nCalls < MaxCalls) =>
        \A k \in Pieces, outSize \in BufOutSizes, mode \in FinishModes :
            \E B \in {BufEnter(dec, outSize)} :
                BufLoopProgresses(B, SubSeq(rest, 1, k), mode)

\* the turns of the core's loop make progress in the call that the next turn
\* of the framer makes, if it is a turn in the data of an LZMA chunk
LzmaTurnProgresses ==
    (pc = "loop" /\ ~LoopEnds /\ IsDataState(dec.state) /\ ~isUncompressedState(dec))
        => LzmaCallProgresses(
               dec,
               SubSeq(src, srcLen + 1, srcLen + Min(Len(src) - srcLen, dec.packSize)),
               Dic.pos + DestSizeCur(dec, dicLimit),
               IF dec.unpackSize <= dicLimit - Dic.pos THEN "End" ELSE "Any")

\* C22: the calls terminate.  A turn of the loop of Decoder2::DecodeToDic
\* returns, throws, or consumes input, writes output or changes the state of
\* the framer, and then it makes the pair (input left plus room left below
\* dicLimit, 1 in the data of a chunk and 0 in a header) smaller in the
\* lexicographic order; every turn of the loop of DecoderCore::DecodeToDic
\* returns, throws, finds the end mark, consumes input or writes output, and
\* none gives back input or output; every turn of the loop of DecodeToBuf
\* returns, throws or makes what is left of dest smaller and leaves it above
\* 0.  A call of DecodeToDic that is entered does return or throw.
C22_Terminates ==
    /\ [](TurnProgresses /\ LzmaTurnProgresses /\ BufCallsProgress)
    /\ (pc = "loop") ~> (pc = "idle")

\* a call has returned after as many turns as it takes to read a header of
\* six bytes and to decode the whole of an LZMA chunk
C22_Witness ==
    /\ pc = "idle"
    /\ exc = "none"
    /\ status = "FinishedWithMark"
    /\ srcLen = Len(StreamMatch)
    /\ src = StreamMatch
    /\ Dic.pos = 4


\* the step is the return of a call of Decoder2::DecodeToDic with NeedsMoreInput
ReturnsNeedsMoreInput ==
    pc = "loop" /\ pc' = "idle" /\ exc' = "none" /\ status' = "NeedsMoreInput"

\* C23, as the claim states it: a call of Decoder2::DecodeToDic that returns
\* NeedsMoreInput has consumed every byte it was given, srcLen = inSize.
C23_NeedsMoreInputConsumesAll ==
    [][ReturnsNeedsMoreInput => srcLen' = Len(src)]_vars

\* what holds instead: the bytes left over are those behind the packSize bytes
\* of an LZMA chunk that the symbol decoder has used up without finishing the
\* chunk; packSize is 0 then, and no later call reads a byte
C23_NeedsMoreInputOrPackUsedUp ==
    [][ReturnsNeedsMoreInput
        => \/ srcLen' = Len(src)
           \/ /\ dec'.state = "LZMA2_STATE_DATA_CONT"
              /\ ~isUncompressedState(dec')
              /\ dec'.packSize = 0 /\ dec'.unpackSize > 0]_vars

\* a call that returns NeedsMoreInput and leaves input unread
C23_Stuck ==
    /\ pc = "idle" /\ nCalls > 0 /\ exc = "none" /\ status = "NeedsMoreInput"
    /\ srcLen < Len(src)
    /\ dec.packSize = 0 /\ dec.unpackSize > 0


\* C24: Finished is absorbing.  While the framer is in the state Finished and
\* Reset() is not called, no step changes the decoder (Dic.pos and the
\* dictionary with it); a call entered in that state starts at srcLen = 0,
\* and its first evaluation of the loop condition ends it with srcLen as it
\* is, the status FinishedWithMark and no throw, whatever src, dicLimit and
\* finishMode are.
C24_FinishedAbsorbing ==
    [][dec.state = "LZMA2_STATE_FINISHED" /\ nResets' = nResets
        => /\ dec' = dec
           /\ pc = "idle" => pc' = "loop" /\ srcLen' = 0
           /\ pc = "loop" => /\ pc' = "idle"
                             /\ srcLen' = srcLen
                             /\ status' = "FinishedWithMark"
                             /\ exc' = "none"
                             /\ rest' = Drop(rest, srcLen)]_vars

\* a call entered in the state Finished with input and with room for output
\* has returned
C24_Witness ==
    /\ pc = "idle" /\ nCalls = MaxCalls /\ nResets = 0
    /\ dec.state = "LZMA2_STATE_FINISHED"
    /\ Len(src) > 0 /\ srcLen = 0 /\ dicLimit > Dic.pos /\ finishMode = "End"
    /\ status = "FinishedWithMark" /\ exc = "none"


\* the call in progress has the finish mode End, the output is at dicLimit
\* and the framer is inside the data of a chunk with bytes still to unpack
AtLimitInChunk ==
    /\ pc = "loop" /\ finishMode = "End"
    /\ Dic.pos = dicLimit
    /\ IsDataState(dec.state) /\ dec.unpackSize > 0

\* C25: with the finish mode End, Dic.pos = dicLimit and the framer inside a
\* chunk with unpackSize > 0, the call does not continue the chunk: every
\* turn of its loop leaves Dic.pos and the dictionary as they are and keeps
\* unpackSize, and it returns NeedsMoreInput, throws BadStream, or goes on to
\* a turn for which the same holds; the call ends in no other way.
C25_NoProgressAtLimit ==
    [][AtLimitInChunk
        => /\ Dic' = Dic
           /\ dec'.unpackSize = dec.unpackSize
           /\ \/ pc' = "idle" /\ exc' = "none" /\ status' = "NeedsMoreInput"
              \/ pc' = "idle" /\ exc' = "BadStream"
              \/ AtLimitInChunk']_vars

\* a call entered at dicLimit inside an LZMA chunk has read the five bytes of
\* the range coder and thrown BadStream, having written nothing
C25_Witness ==
    /\ pc = "idle" /\ exc = "BadStream" /\ finishMode = "End"
    /\ entry.pos = dicLimit /\ Dic.pos = dicLimit /\ entry.mem = Dic.mem
    /\ dec.state = "LZMA2_STATE_DATA_CONT" /\ ~isUncompressedState(dec)
    /\ dec.unpackSize > 0
    /\ srcLen >= 5


(***************************************************************************)
(* The reset chunk in the middle of a stream.  The callers of Spec, on     *)
(* streams that clear the three flags with an LZMA chunk of mode 3 and go  *)
(* on with an uncompressed chunk of control 1.                             *)
(***************************************************************************)
\* the LZMA chunk of StreamLits: mode 3, two literals
ChunkLits == SubSeq(StreamLits, 1, 13)
\* the uncompressed chunk "c" without dictionary reset
ChunkCopyNoReset == SubSeq(BadCopyNoReset, 1, 4)
\* ... then a reset chunk and an LZMA chunk of mode 1, of mode 0, of mode 2
RearmNoProp == ChunkLits \o BadNoProp
RearmNoState == ChunkLits \o BadNoState
RearmNewProp == ChunkLits \o StreamCopyLzma
\* ... then a reset chunk, a chunk without reset and an LZMA chunk of mode 1
RearmCopies == ChunkLits \o SubSeq(BadNoProp, 1, 4) \o ChunkCopyNoReset
                   \o SubSeq(BadNoProp, 5, Len(BadNoProp))
RearmStreams == {RearmNoProp, RearmNoState, RearmNewProp, RearmCopies}

InitRearm ==
    /\ \E c \in Configs : prop = c[1] /\ dec = Decoder2(c[1], c[2])
    /\ rest \in RearmStreams
    /\ pc = "idle"
    /\ dicLimit = 0
    /\ src = <<>>
    /\ finishMode = "Any"
    /\ srcLen = 0
    /\ status = "NotSpecified"
    /\ exc = "none"
    /\ entry = [mem |-> dec.decoder.m_dic.mem, pos |-> 0]
    /\ errored = FALSE
    /\ nCalls = 0
    /\ nResets = 0
    /\ ref = NoRef

SpecRearm == InitRearm /\ [][Next]_vars

\* C26: the uncompressed chunk with dictionary reset re-arms the flags.  The
\* turn that enters the data of a chunk of control 1 (with a byte of input
\* to hand) leaves needInitProp and needInitState set; needInitProp is
\* cleared only by the property byte of an LZMA chunk of mode 2 or 3, and
\* with needInitProp set the data of an LZMA chunk is never entered without
\* a throw; with needInitProp set the last header byte of an LZMA chunk of
\* mode 0 or 1 puts the framer into the state Error, and in that state the
\* call throws BadStream.
C26_ResetChunkRearms ==
    [][ /\ (EntersData /\ dec.control = CONTROL_COPY_RESET_DIC /\ srcLen < Len(src))
            => dec'.needInitProp /\ dec'.needInitState
        /\ (dec.needInitProp /\ ~dec'.needInitProp)
            => (ReadsProp /\ getLzmaMode(dec) >= 2)
        /\ (EntersData /\ ~isUncompressedState(dec) /\ exc' = "none")
            => /\ ~dec.needInitProp
               /\ dec.needInitState => getLzmaMode(dec) >= 2
        /\ ( /\ pc = "loop" /\ ~LoopEnds /\ dec.state = "LZMA2_STATE_PACK1"
             /\ srcLen < Len(src)
             /\ getLzmaMode(dec) < 2 /\ dec.needInitProp)
            => dec'.state = "LZMA2_STATE_ERROR" /\ pc' = "loop"
        /\ (pc = "loop" /\ dec.state = "LZMA2_STATE_ERROR")
            => pc' = "idle" /\ exc' = "BadStream" /\ dec' = dec
      ]_vars

\* after an LZMA chunk with new properties, a reset chunk and a chunk without
\* reset, the header of an LZMA chunk of mode 1 has been read to its end and
\* the call has thrown
C26_Witness ==
    /\ pc = "idle" /\ exc = "BadStream"
    /\ src = RearmCopies /\ srcLen = 26
    /\ dec.state = "LZMA2_STATE_ERROR"
    /\ dec.control = 160
    /\ dec.needInitProp /\ dec.needInitState /\ ~dec.needInitDic
    /\ dec.decoder.m_properties.lc = 3


(***************************************************************************)
(* The header of a chunk, split at will.  The stream of the caller is a    *)
(* chunk header (a control byte, two or four size bytes) and one byte      *)
(* more, at the start of the stream or behind the LZMA chunk of            *)
(* StreamLits, which clears the three flags.  Every call is handed up to   *)
(* MaxHeaderPiece of the bytes the caller has left, or all of them, and    *)
(* room for all the output; the ghost ref holds the stream and where its   *)
(* header starts.                                                          *)
(***************************************************************************)
HeaderControls == {1, 2, 128, 159, 160, 191, 192, 224, 255}
HeaderSizeBytes == {0, 1, 255}
\* the headers, with the byte behind them: a data byte, or a property byte
HeaderUncompressed ==
    {<<c, u1, u2, 97>> : c \in {1, 2}, u1 \in HeaderSizeBytes, u2 \in HeaderSizeBytes}
HeaderLzma ==
    {<<c, u[1], u[2], p[1], p[2], 93>> :
        c \in HeaderControls \ {1, 2},
        u \in HeaderSizeBytes \X HeaderSizeBytes,
        p \in HeaderSizeBytes \X HeaderSizeBytes}
MaxHeaderPiece == 2

InitHeader ==
    /\ prop = 0
    /\ dec = Decoder2(0, 3)
    /\ \E before \in {<<>>, ChunkLits}, h \in HeaderUncompressed \cup HeaderLzma :
          /\ rest = before \o h
          /\ ref = [stream |-> before \o h, at |-> Len(before)]
    /\ pc = "idle"
    /\ dicLimit = 0
    /\ src = <<>>
    /\ finishMode = "Any"
    /\ srcLen = 0
    /\ status = "NotSpecified"
    /\ exc = "none"
    /\ entry = [mem |-> dec.decoder.m_dic.mem, pos |-> 0]
    /\ errored = FALSE
    /\ nCalls = 0
    /\ nResets = 0

\* what a caller hands to a call: nothing, one byte, two bytes, or all it has
HeaderPieces == {k \in 0..Len(rest) : k <= MaxHeaderPiece \/ k = Len(rest)}

NextHeader ==
    \/ \E k \in HeaderPieces, mode \in FinishModes :
          Feed(SubSeq(rest, 1, k), Dic.size, mode)
    \/ LoopExit
    \/ HeaderTurn
    \/ UncompressedTurn
    \/ LzmaTurn

SpecHeader == InitHeader /\ [][NextHeader]_vars

\* the bytes of the stream consumed so far, and the bytes of the header
Consumed == Len(ref.stream) - Len(rest) + (IF pc = "loop" THEN srcLen ELSE 0)
HeaderByte(n) == ref.stream[ref.at + n]
\* the chunk of the header is the one the framer is in
InHeaderChunk == Consumed > ref.at

\* C27: the fields of a chunk header.  When the framer has entered the state
\* Data of the chunk with the control byte c, an LZMA chunk has unpackSize =
\* (((c & 0x1F) << 16) | (U1 << 8) | U2) + 1 and packSize = ((P1 << 8) | P2)
\* + 1 and an uncompressed chunk has unpackSize = ((U1 << 8) | U2) + 1,
\* whatever the calls were that brought the bytes; the framer has consumed
\* three bytes of an uncompressed chunk, five of an LZMA chunk of mode 0 or 1
\* and six, the property byte with them, of an LZMA chunk of mode 2 or 3, and
\* it is in the state Prop only in an LZMA chunk of mode 2 or 3.
C27_HeaderFields ==
    /\ (InHeaderChunk /\ dec.state = "LZMA2_STATE_DATA") =>
          /\ dec.control = HeaderByte(1)
          /\ IF HeaderByte(1) >= 128
             THEN /\ dec.unpackSize = (HeaderByte(1) % 32) * 65536
                                        + HeaderByte(2) * 256 + HeaderByte(3) + 1
                  /\ dec.packSize = HeaderByte(4) * 256 + HeaderByte(5) + 1
                  /\ Consumed - ref.at = IF (HeaderByte(1) \div 32) % 4 >= 2 THEN 6 ELSE 5
             ELSE /\ dec.unpackSize = HeaderByte(2) * 256 + HeaderByte(3) + 1
                  /\ Consumed - ref.at = 3
    /\ (InHeaderChunk /\ dec.state = "LZMA2_STATE_PROP") =>
          /\ HeaderByte(1) >= 128 /\ (HeaderByte(1) \div 32) % 4 >= 2
          /\ Consumed - ref.at = 5
    /\ (InHeaderChunk /\ Consumed - ref.at >= 5 /\ HeaderByte(1) >= 128
          /\ (HeaderByte(1) \div 32) % 4 >= 2 /\ dec.state # "LZMA2_STATE_PROP")
         => Consumed - ref.at >= 6

\* the header 9F FF FF FF FF of an LZMA chunk of mode 0, behind a chunk that
\* cleared the flags, has been read and its last byte came alone in a call:
\* the framer is in Data
C27_Witness ==
    /\ ref.at > 0 /\ HeaderByte(1) = 159
    /\ dec.state = "LZMA2_STATE_DATA" /\ pc = "loop" /\ exc = "none"
    /\ dec.unpackSize = 2097152 /\ dec.packSize = 65536
    /\ Len(src) = 1 /\ srcLen = 1 /\ Consumed = ref.at + 5


(***************************************************************************)
(* The symbol decoder fed in small pieces.  The callers of SpecHeader, on  *)
(* whole streams and with every dicLimit of Spec's callers: any symbol of  *)
(* the streams is cut by the end of a call's input.  A caller makes no     *)
(* call after a call that has thrown.                                      *)
(***************************************************************************)
\* literals 'a' 'b', a match of distance 2 and length 5 (a self-overlapping
\* copy), literal 'c': "abababac"
StreamOverlap == <<224, 0, 7, 0, 8, 93, 0, 48, 152, 159, 4, 198, 0, 0, 0, 0>>
SaveStreams == {StreamMatch, StreamOverlap, StreamShortRep, StreamCont, StreamLong,
                StreamCopyLzma, BadPackBig, BadEndMark, BadDistance}

InitSave ==
    /\ \E c \in Configs : prop = c[1] /\ dec = Decoder2(c[1], c[2])
    /\ rest \in SaveStreams
    /\ pc = "idle"
    /\ dicLimit = 0
    /\ src = <<>>
    /\ finishMode = "Any"
    /\ srcLen = 0
    /\ status = "NotSpecified"
    /\ exc = "none"
    /\ entry = [mem |-> dec.decoder.m_dic.mem, pos |-> 0]
    /\ errored = FALSE
    /\ nCalls = 0
    /\ nResets = 0
    /\ ref = NoRef

NextSave ==
    \/ /\ ~errored
       /\ \E k \in HeaderPieces, limit \in Limits, mode \in FinishModes :
             Feed(SubSeq(rest, 1, k), limit, mode)
    \/ LoopExit
    \/ HeaderTurn
    \/ UncompressedTurn
    \/ LzmaTurn

SpecSave == InitSave /\ [][NextSave]_vars

\* the frame of a turn of the core's loop where the attempt at a symbol
\* starts: after the bytes of the range coder's start, the test of the
\* output limit and InitStateReal(), if the turn gets that far
AttemptFrame(f, inp, limit, mode) ==
    LET f1 == CoreFlush(f, inp)
        f2 == IF f1.ret \/ f1.exc THEN f1 ELSE CoreAtLimit(f1, limit, mode)
    IN  IF f2.ret \/ f2.exc THEN f2
        ELSE IF f2.p.needInitState THEN [f2 EXCEPT !.p = InitStateReal(@)]
        ELSE f2

\* the input available to the attempt: the bytes kept and the bytes of inp
\* not yet consumed
Pending(a, inp) == a.p.tempBuf \o SubSeq(inp, a.srcBytes + 1, a.srcBytes + a.inSize)

\* fewer than LZMA_REQUIRED_INPUT_MAX bytes, and the dry run over them ends
\* with DUMMY_ERROR
Incomplete(a, inp) ==
    /\ Len(Pending(a, inp)) < LZMA_REQUIRED_INPUT_MAX
    /\ TryDummy(a.p, Pending(a, inp), 0, Len(Pending(a, inp))).res = "DUMMY_ERROR"

\* the object without the bytes kept
NoTempBuf(p) == [p EXCEPT !.tempBuf = <<>>, !.tempBufSize = 0]

\* the turn that ends in g has returned NeedsMoreInput with the bytes
\* pending kept in tempBuf, all input consumed and nothing else changed
Saved(a, g, inp) ==
    /\ g.ret /\ ~g.exc /\ g.status = "NeedsMoreInput"
    /\ g.p.tempBuf = Pending(a, inp)
    /\ g.p.tempBufSize = Len(Pending(a, inp))
    /\ g.srcLen = a.srcLen + a.inSize
    /\ NoTempBuf(g.p) = NoTempBuf(a.p)

\* the turn that ends in g has decoded, from the bytes kept and the bytes
\* that follow, what one symbol decoded from the same bytes in one piece (r)
\* gives: the symbol uses every byte kept, and of inp the bytes behind them
Resumed(a, g, r) ==
    IF g.exc THEN r.exc \/ a.checkEndMarkNow
    ELSE /\ ~r.exc /\ ~g.ret
         /\ r.p.buf >= a.p.tempBufSize
         /\ g.srcLen = a.srcLen + (r.p.buf - a.p.tempBufSize)
         /\ g.p = r.p

\* the above for the turn of the core's loop from f to g
TurnSaves(f, a, g, inp, limit) ==
    /\ g.p.tempBufSize <= LZMA_REQUIRED_INPUT_MAX
    /\ (a.ret \/ a.exc) => g = a
    /\ (~a.ret /\ ~a.exc /\ Incomplete(a, inp)) => Saved(a, g, inp)
    /\ (~a.ret /\ ~a.exc /\ ~Incomplete(a, inp) /\ a.p.tempBufSize > 0)
         => Resumed(a, g, DecodeReal2([NoTempBuf(a.p) EXCEPT !.buf = 0],
                                      Pending(a, inp), limit, 0))

RECURSIVE CoreLoopSaves(_, _, _, _)
CoreLoopSaves(f, inp, limit, mode) ==
    IF f.ret \/ f.exc \/ f.p.remainLen = kMatchSpecLenStart THEN TRUE
    ELSE \E a \in {AttemptFrame(f, inp, limit, mode)}, g \in {CoreTurn(f, inp, limit, mode)} :
            /\ TurnSaves(f, a, g, inp, limit)
            /\ CoreLoopSaves(g, inp, limit, mode)

\* the same for the call of the core that a turn of the framer makes in the
\* data of an LZMA chunk, on the bytes inp and up to limit
LzmaCallSaves(self, inp, limit, mode) ==
    \/ self.state = "LZMA2_STATE_DATA"
          /\ LzmaResetMissing(self, getLzmaMode(self) = 3, getLzmaMode(self) > 0)
    \/ \E f \in {CoreEnter(IF self.state = "LZMA2_STATE_DATA"
                           THEN InitDicAndState(self.decoder, getLzmaMode(self) = 3,
                                                getLzmaMode(self) > 0)
                           ELSE self.decoder,
                           limit, inp)} :
          CoreLoopSaves(f, inp, limit, mode)

\* C28: never mid-symbol.  tempBufSize is at most LZMA_REQUIRED_INPUT_MAX
\* in every state.  On a decoder that has not thrown, in every turn of the
\* loop of DecoderCore::DecodeToDic that comes to the attempt at a symbol
\* with fewer than 20 bytes at hand for which TryDummy reports
\* DUMMY_ERROR, the call returns NeedsMoreInput
\* with those bytes in tempBuf and all its input consumed, and the object
\* is otherwise as it was when the attempt started (range, code, state, reps,
\* probabilities, Dic.pos, processedPos, dictionary); a turn that decodes
\* with bytes in tempBuf gives what the symbol decoded from the bytes kept
\* and the new input in one piece gives, and consumes of the new input the
\* bytes of the symbol behind the bytes kept.
C28_NeverMidSymbol ==
    /\ dec.decoder.tempBufSize <= LZMA_REQUIRED_INPUT_MAX
    /\ Len(dec.decoder.tempBuf) = dec.decoder.tempBufSize
    /\ ( /\ pc = "loop" /\ ~LoopEnds /\ ~errored
         /\ IsDataState(dec.state) /\ ~isUncompressedState(dec))
         => LzmaCallSaves(
                dec,
                SubSeq(src, srcLen + 1, srcLen + Min(Len(src) - srcLen, dec.packSize)),
                Dic.pos + DestSizeCur(dec, dicLimit),
                IF dec.unpackSize <= dicLimit - Dic.pos THEN "End" ELSE "Any")

\* a call has returned NeedsMoreInput in the middle of the stream with the
\* first two bytes of a symbol kept
C28_Witness ==
    /\ pc = "idle" /\ exc = "none" /\ status = "NeedsMoreInput"
    /\ ~dec.decoder.needFlush
    /\ dec.decoder.tempBufSize >= 2
    /\ dec.decoder.processedPos > 0
    /\ srcLen = Len(src)


\* the next turn of the framer's loop calls the symbol decoder, on a decoder
\* that has not thrown; the arguments of that call
AtLzmaTurn ==
    /\ pc = "loop" /\ ~LoopEnds /\ ~errored
    /\ IsDataState(dec.state) /\ ~isUncompressedState(dec)
    /\ ~(dec.state = "LZMA2_STATE_DATA"
           /\ LzmaResetMissing(dec, getLzmaMode(dec) = 3, getLzmaMode(dec) > 0))
CoreObj ==
    IF dec.state = "LZMA2_STATE_DATA"
    THEN InitDicAndState(dec.decoder, getLzmaMode(dec) = 3, getLzmaMode(dec) > 0)
    ELSE dec.decoder
CoreInp == SubSeq(src, srcLen + 1, srcLen + Min(Len(src) - srcLen, dec.packSize))
CoreLimit == Dic.pos + DestSizeCur(dec, dicLimit)
CoreMode == IF dec.unpackSize <= dicLimit - Dic.pos THEN "End" ELSE "Any"

\* the bytes of a match still to be written
MatchPending(p) == p.remainLen # 0 /\ p.remainLen < kMatchSpecLenStart

\* the symbol decoder's own state: what decoding a symbol changes besides
\* the dictionary and the positions
SymbolState(p) == <<p.m_range, p.m_code, p.m_probs, p.state, p.reps>>

\* the call that has left q with a match cut at limit, the same call with
\* room for the whole match (u), and WriteRem with that room on q (w)
CutMatchCompleted(q, u, w, limit) ==
    /\ q.p.m_dic.pos = limit
    /\ ~u.exc /\ u.p.remainLen = 0
    /\ w.remainLen = 0
    /\ w.m_dic.pos = limit + q.p.remainLen
    /\ w.processedPos = q.p.processedPos + q.p.remainLen
    /\ w.m_dic = u.p.m_dic
    /\ w.processedPos = u.p.processedPos
    /\ w.checkDicSize = u.p.checkDicSize
    /\ SymbolState(w) = SymbolState(u.p) /\ SymbolState(w) = SymbolState(q.p)
    /\ \A l1 \in limit..(limit + q.p.remainLen) :
          /\ WriteRem(q.p, l1).remainLen = q.p.remainLen - (l1 - limit)
          /\ WriteRem(q.p, l1).m_dic.pos = l1
          /\ WriteRem(WriteRem(q.p, l1), limit + q.p.remainLen) = w

\* the next call of the symbol decoder, if it leaves a match cut by its
\* limit, leaves what WriteRem completes to the result of the same call with
\* room for the match
CutMatchesCompleted ==
    AtLzmaTurn =>
        \E q \in {CoreDecodeToDic(CoreObj, CoreLimit, CoreInp, CoreMode)} :
            (~q.exc /\ MatchPending(q.p) /\ CoreLimit + q.p.remainLen <= Dic.size)
                => CutMatchCompleted(q,
                                     CoreDecodeToDic(CoreObj, CoreLimit + q.p.remainLen,
                                                     CoreInp, "Any"),
                                     WriteRem(q.p, CoreLimit + q.p.remainLen),
                                     CoreLimit)

\* C29: a match cut by the output limit is completed.  A call of the symbol
\* decoder that leaves remainLen = L - k bytes of a match unwritten at its
\* limit leaves an object that WriteRem, given the room in one call or in
\* several, takes to the dictionary, Dic.pos and processedPos that the same
\* call gives with a limit large enough for the match; and a turn of the
\* framer entered with such a remainLen writes min(remainLen, room) bytes
\* first, each the byte rep0 places back, and as long as remainLen exceeds
\* the room it consumes no input and decodes no symbol.
C29_CutMatchCompleted ==
    /\ [](CutMatchesCompleted)
    /\ [][(AtLzmaTurn /\ MatchPending(dec.decoder))
            => /\ \A i \in Dic.pos..(Dic.pos + Min(dec.decoder.remainLen,
                                                     CoreLimit - Dic.pos) - 1) :
                     /\ i >= dec.decoder.reps[1]
                     /\ dec'.decoder.m_dic.mem[i + 1]
                            = dec'.decoder.m_dic.mem[i - dec.decoder.reps[1] + 1]
               /\ dec'.decoder.m_dic.pos >= Dic.pos + Min(dec.decoder.remainLen,
                                                          CoreLimit - Dic.pos)
               /\ dec.decoder.remainLen > CoreLimit - Dic.pos
                    => /\ dec'.decoder.m_dic.pos = CoreLimit
                       /\ dec'.decoder.remainLen
                              = dec.decoder.remainLen - (CoreLimit - Dic.pos)
                       /\ dec'.decoder.processedPos
                              = dec.decoder.processedPos + (CoreLimit - Dic.pos)
                       /\ SymbolState(dec'.decoder) = SymbolState(dec.decoder)
                       /\ srcLen' = srcLen]_vars

\* the match of StreamOverlap was cut after two of its five bytes, and the
\* last call has written the third, by WriteRem; two are left
C29_Witness ==
    /\ pc = "idle" /\ exc = "none" /\ ~errored
    /\ entry.pos = 4 /\ Dic.pos = 5 /\ dicLimit = 5
    /\ dec.decoder.remainLen = 2
    /\ dec.decoder.reps[1] = 2
    /\ SubSeq(Dic.mem, 1, 5) = <<97, 98, 97, 98, 97>>
    /\ srcLen = 0



(***************************************************************************)
(* Back-references near and far.  The callers of SpecSave on streams whose *)
(* symbols are matches and reps of every kind, and on a decoder whose      *)
(* dictionary has been filled up to dicSize by an uncompressed chunk, so   *)
(* that checkDicSize is set: the caller hands the uncompressed chunk in    *)
(* one call with room for all of it, and the LZMA chunk behind it in small *)
(* pieces.                                                                 *)
(***************************************************************************)
\* 'a' 'b' 'c', matches of distance 3 and 1, a rep of rep1, a short rep, a
\* rep of rep0, a rep of rep2: "abcabbbbbbbbbbb"
StreamReps == <<224, 0, 14, 0, 13, 93, 0, 48, 152, 136, 163, 182, 200, 150, 36, 6,
                250, 63, 137, 28, 0>>
\* chunk 'a' 'b', then a chunk of mode 1 (state reset) holding a short rep
\* and a rep of rep1: both of distance 1, "abbbb"
StreamRepAfterReset == <<224, 0, 1, 0, 6, 93, 0, 48, 152, 124, 0, 0, 0,
                         160, 0, 2, 0, 5, 0, 205, 255, 252, 0, 0, 0>>
\* a short rep as the first symbol of the stream
BadRepAtStart == <<224, 0, 0, 0, 4, 93, 0, 191, 255, 252, 0, 0>>
\* a rep of rep0 and length 2 as the first symbol of the stream
BadLongRepAtStart == <<224, 0, 1, 0, 4, 93, 0, 207, 255, 252, 0, 0>>
NearStreams == {StreamMatch, StreamOverlap, StreamShortRep, StreamCont, StreamReps,
                StreamRepAfterReset, BadDistance, BadRepAtStart, BadLongRepAtStart}

\* the dictionary size of the property byte 0, and the room the caller's
\* buffer has beyond it
FarDicSize == ToInt(dicSizeFromProp(0))
FarRoom == 8
\* an uncompressed chunk with a dictionary reset: n bytes 1, 2, ..
FarFill(n) == <<1, (n - 1) \div 256, (n - 1) % 256>> \o [i \in 1..n |-> i % 251]
\* dicSize bytes, then an LZMA chunk of mode 2: a match of distance dicSize
\* and length 3, a short rep, the literal 7, a rep of rep0 and length 2
FarMatch == FarFill(FarDicSize)
            \o <<192, 0, 6, 0, 9, 93, 0, 133, 127, 251, 0, 250, 0, 0, 0, 0, 0>>
\* dicSize bytes, then the literal 7 and a match of distance dicSize + 1:
\* within the bytes decoded, beyond the dictionary
FarBadDistance == FarFill(FarDicSize)
                  \o <<192, 0, 2, 0, 7, 93, 0, 3, 192, 188, 0, 0, 0, 0, 0>>
\* dicSize - 2 bytes, then a match of distance dicSize - 2 and length 5 (the
\* dictionary gets full inside it), the literal 7, a match of distance dicSize
FarCross == FarFill(FarDicSize - 2)
            \o <<192, 0, 7, 0, 10, 93, 0, 141, 127, 232, 15, 3, 23, 247, 194, 16, 0, 0>>
\* the same match of length 5, then a match of distance dicSize + 1
FarCrossBad == FarFill(FarDicSize - 2)
               \o <<192, 0, 6, 0, 9, 93, 0, 141, 127, 234, 6, 48, 0, 0, 0, 0, 0>>
FarStreams == {FarMatch, FarBadDistance, FarCross, FarCrossBad}

InitRefs ==
    /\ \/ \E c \in Configs : prop = c[1] /\ dec = Decoder2(c[1], c[2]) /\ rest \in NearStreams
       \/ prop = 0 /\ dec = Decoder2(0, FarDicSize + FarRoom) /\ rest \in FarStreams
    /\ pc = "idle"
    /\ dicLimit = 0
    /\ src = <<>>
    /\ finishMode = "Any"
    /\ srcLen = 0
    /\ status = "NotSpecified"
    /\ exc = "none"
    /\ entry = [mem |-> dec.decoder.m_dic.mem, pos |-> 0]
    /\ errored = FALSE
    /\ nCalls = 0
    /\ nResets = 0
    /\ ref = NoRef

\* the uncompressed chunk at the head of a far stream is still to be fed
AtFarFill == Len(rest) > FarDicSize - 2

NextRefs ==
    \/ /\ ~errored /\ AtFarFill
       /\ \E mode \in FinishModes :
             Feed(SubSeq(rest, 1, 3 + rest[2] * 256 + rest[3] + 1), Dic.size, mode)
    \/ /\ ~errored /\ ~AtFarFill
       /\ \E k \in HeaderPieces, limit \in Limits, mode \in FinishModes :
             Feed(SubSeq(rest, 1, k), limit, mode)
    \/ LoopExit
    \/ HeaderTurn
    \/ UncompressedTurn
    \/ LzmaTurn

SpecRefs == InitRefs /\ [][NextRefs]_vars

\* the distance rep0 - 1 is within the bytes decoded since the dictionary
\* reset, or within the dictionary once it is full
DistOk(rep0, processedPos, checkDicSize) ==
    /\ rep0 >= 1
    /\ IF checkDicSize = U32Zero THEN rep0 - 1 < processedPos
       ELSE U32Lt(U32(rep0 - 1), checkDicSize)

\* one symbol, from the locals L to L1: a symbol that throws has written no
\* byte; a match, a rep or a short rep that is executed has rep0 within the
\* bounds at its start and writes, byte by byte, the byte rep0 places back
SymbolValid(L, L1, e) ==
    /\ L1.exc => (L1.mem = L.mem /\ L1.dicPos = L.dicPos)
    /\ (~L1.exc /\ ~L1.brk /\ L1.state >= kNumLitStates)
         => /\ DistOk(L1.rep0, L.processedPos, e.checkDicSize)
            /\ L1.dicPos > L.dicPos
            /\ L1.processedPos - L.processedPos = L1.dicPos - L.dicPos
            /\ \A i \in L.dicPos..(L1.dicPos - 1) :
                  InMem(e.dicBufSize, i)
                    => L1.mem[i + 1]
                         = MemAt(L1.mem, e.dicBufSize,
                                 (i - L1.rep0) + (IF i < L1.rep0 THEN e.dicBufSize ELSE 0))

\* the symbols of one call of DecodeReal
RECURSIVE SymbolsValid(_, _, _)
SymbolsValid(L, e, bufLimit) ==
    \E L1 \in {Symbol(L, e)} :
        /\ SymbolValid(L, L1, e)
        /\ (~L1.exc /\ ~L1.brk /\ L1.dicPos < e.limit /\ L1.buf < bufLimit)
             => SymbolsValid(L1, e, bufLimit)

\* the copy of WriteRem(limit) on p, if it writes a byte
WriteRemValid(p, limit) ==
    (MatchPending(p) /\ WriteRemLen(p, limit) > 0)
        => DistOk(p.reps[1], p.processedPos, p.checkDicSize)

\* the turns of DecodeReal2(limit, bufLimit) on p: DecodeReal, then WriteRem
RECURSIVE Real2Valid(_, _, _, _)
Real2Valid(p, inp, limit, bufLimit) ==
    /\ SymbolsValid(DecodeRealLocals(p), DecodeRealEnv(p, inp, Limit2(p, limit)), bufLimit)
    /\ \E r \in {DecodeReal(p, inp, Limit2(p, limit), bufLimit)} :
          ~r.exc =>
             /\ WriteRemValid(SetCheckDicSize(r.p), limit)
             /\ \E r2 \in {DecodeReal2Rest(r, limit)} :
                   (r2.p.m_dic.pos < limit /\ r2.p.buf < bufLimit
                    /\ r2.p.remainLen < kMatchSpecLenStart)
                       => Real2Valid(r2.p, inp, limit, bufLimit)

\* the bytes the attempt a has at hand: those kept with those that follow,
\* up to LZMA_REQUIRED_INPUT_MAX, or the input left
AttemptBytes(a, inp) ==
    IF a.p.tempBufSize = 0 THEN inp
    ELSE SubSeq(Pending(a, inp), 1, Min(LZMA_REQUIRED_INPUT_MAX, Len(Pending(a, inp))))
AttemptAvail(a, inp) == IF a.p.tempBufSize = 0 THEN a.inSize ELSE Len(AttemptBytes(a, inp))
AttemptFrom(a) == IF a.p.tempBufSize = 0 THEN a.srcBytes ELSE 0
AttemptDummy(a, inp) == AttemptAvail(a, inp) < LZMA_REQUIRED_INPUT_MAX \/ a.checkEndMarkNow

\* the attempt a calls DecodeReal2
AttemptDecodes(a, inp) ==
    /\ ~a.ret /\ ~a.exc
    /\ AttemptDummy(a, inp)
         => \E d \in {TryDummy(a.p, AttemptBytes(a, inp), AttemptFrom(a),
                               AttemptAvail(a, inp)).res} :
               d # "DUMMY_ERROR" /\ (a.checkEndMarkNow => d = "DUMMY_MATCH")

\* bufLimit of that call
AttemptBufLimit(a, inp) ==
    IF a.p.tempBufSize # 0 \/ AttemptDummy(a, inp) THEN AttemptFrom(a)
    ELSE a.srcBytes + a.inSize - LZMA_REQUIRED_INPUT_MAX

\* the call of DecodeReal2 in the turn of the core's loop that ends in g is
\* valid, and g holds what that call has decoded (r)
AttemptValid(a, g, inp, limit) ==
    AttemptDecodes(a, inp) =>
        /\ Real2Valid([a.p EXCEPT !.buf = AttemptFrom(a)], AttemptBytes(a, inp), limit,
                      AttemptBufLimit(a, inp))
        /\ \E r \in {DecodeReal2([a.p EXCEPT !.buf = AttemptFrom(a)], AttemptBytes(a, inp),
                                 limit, AttemptBufLimit(a, inp))} :
              /\ g.exc = r.exc
              /\ g.p.m_dic = r.p.m_dic
              /\ g.p.processedPos = r.p.processedPos
              /\ g.p.reps = r.p.reps
              /\ g.p.remainLen = r.p.remainLen

RECURSIVE CoreLoopValid(_, _, _, _)
CoreLoopValid(f, inp, limit, mode) ==
    IF f.ret \/ f.exc \/ f.p.remainLen = kMatchSpecLenStart THEN TRUE
    ELSE \E a \in {AttemptFrame(f, inp, limit, mode)}, g \in {CoreTurn(f, inp, limit, mode)} :
            /\ AttemptValid(a, g, inp, limit)
            /\ CoreLoopValid(g, inp, limit, mode)

\* C30: back-reference validity.  Every match, rep and short rep that the
\* symbol decoder executes, and every continuation in WriteRem that writes a
\* byte, copies with a distance d = rep0 - 1 such that d < processedPos (at the
\* start of the symbol) while checkDicSize is 0 and d < dicSize once it is
\* set: a symbol whose distance is out of these bounds, and any rep while
\* processedPos and checkDicSize are 0, throws instead, and a symbol that
\* throws has written no byte.  In every state a match still pending has
\* such a distance.
C30_BackReferencesValid ==
    /\ MatchPending(dec.decoder)
         => DistOk(dec.decoder.reps[1], dec.decoder.processedPos, dec.decoder.checkDicSize)
    /\ AtLzmaTurn
         => /\ WriteRemValid(CoreObj, CoreLimit)
            /\ CoreLoopValid(CoreEnter(CoreObj, CoreLimit, CoreInp), CoreInp, CoreLimit,
                             CoreMode)

\* FarCross is decoded to its end: the dictionary became full inside the
\* first match, and the last match, of distance dicSize, was executed with
\* checkDicSize set
C30_Witness ==
    /\ pc = "idle" /\ exc = "none" /\ ~errored
    /\ status = "FinishedWithMark"
    /\ dec.decoder.checkDicSize = dicSizeFromProp(0)
    /\ dec.decoder.reps = <<FarDicSize, FarDicSize - 2, 1, 1>>
    /\ dec.decoder.processedPos = FarDicSize + 6
    /\ Dic.pos = FarDicSize + 6
    /\ SubSeq(Dic.mem, FarDicSize - 1, FarDicSize + 6) = <<1, 2, 3, 4, 5, 7, 5, 6>>



(***************************************************************************)
(* The symbol decoder at its output limit.  The callers of SpecSave on     *)
(* chunks whose declared unpacked size ends before their symbols do, so    *)
(* that the symbol decoder stands at its limit, in the finish mode End,    *)
(* before a literal, a match, a short rep, the rest of a match and the     *)
(* end mark.                                                               *)
(***************************************************************************)
\* StreamMatch with the unpacked size declared 1: the match is behind the limit
BadUnpackMatch == <<224, 0, 0, 0, 6, 93, 0, 48, 193, 252, 0, 0, 0, 0>>
\* StreamShortRep with the unpacked size declared 1
BadUnpackRep == <<224, 0, 0, 0, 5, 93, 0, 48, 223, 252, 0, 0, 0>>
\* StreamMatch with the unpacked size declared 2: the match is cut by the limit
BadUnpackCut == <<224, 0, 1, 0, 6, 93, 0, 48, 193, 252, 0, 0, 0, 0>>
\* BadEndMark with a last byte that leaves code = 1 behind the end mark
BadEndMarkCode == <<224, 0, 0, 0, 10, 93, 0, 48, 193, 251, 255, 255, 255, 224, 0, 0, 1, 0>>
EndStreams == {StreamLits, StreamMatch, StreamCopyLzma, BadUnpackSmall, BadUnpackMatch,
               BadUnpackRep, BadUnpackCut, BadEndMark, BadEndMarkCode, BadPackBig}

InitEnd ==
    /\ \E c \in Configs : prop = c[1] /\ dec = Decoder2(c[1], c[2])
    /\ rest \in EndStreams
    /\ pc = "idle"
    /\ dicLimit = 0
    /\ src = <<>>
    /\ finishMode = "Any"
    /\ srcLen = 0
    /\ status = "NotSpecified"
    /\ exc = "none"
    /\ entry = [mem |-> dec.decoder.m_dic.mem, pos |-> 0]
    /\ errored = FALSE
    /\ nCalls = 0
    /\ nResets = 0
    /\ ref = NoRef

\* the symbol decoder has decoded the end mark
AfterEndMark(p) == p.remainLen = kMatchSpecLenStart

\* the callers of SpecSave; behind the end mark they also call again after
\* a throw
NextEnd ==
    \/ /\ ~errored \/ AfterEndMark(dec.decoder)
       /\ \E k \in HeaderPieces, limit \in Limits, mode \in FinishModes :
             Feed(SubSeq(rest, 1, k), limit, mode)
    \/ LoopExit
    \/ HeaderTurn
    \/ UncompressedTurn
    \/ LzmaTurn

SpecEnd == InitEnd /\ [][NextEnd]_vars

\* the symbol that the bytes at hand of the attempt a decode to
NextSymbol(a, inp, limit) ==
    Symbol(DecodeRealLocals([a.p EXCEPT !.buf = AttemptFrom(a)]),
           DecodeRealEnv(a.p, AttemptBytes(a, inp), limit))

\* the turn that ends in g, at the limit in the finish mode End with no
\* match pending: no byte is written; with the next symbol incomplete the
\* call asks for input, with the end mark the symbol decoder stops for
\* good, with any other symbol the call throws
OnlyEndMark(a, g, inp, limit) ==
    /\ a.checkEndMarkNow
    /\ g.p.m_dic = a.p.m_dic
    /\ g.p.processedPos = a.p.processedPos
    /\ \E d \in {TryDummy(a.p, AttemptBytes(a, inp), AttemptFrom(a),
                          AttemptAvail(a, inp)).res} :
          IF d = "DUMMY_ERROR"
          THEN g.ret /\ ~g.exc /\ g.status = "NeedsMoreInput"
          ELSE \E sym \in {NextSymbol(a, inp, limit)} :
                  IF sym.brk /\ ~sym.exc
                  THEN ~g.exc /\ ~g.ret /\ g.p.remainLen = kMatchSpecLenStart
                  ELSE g.exc /\ ~g.ret

\* the turn of the core's loop from f to g, f1 being f after the bytes of
\* the range coder's start
TurnAtLimit(f1, a, g, inp, limit, mode) ==
    (~f1.ret /\ ~f1.exc /\ f1.p.m_dic.pos >= limit) =>
        IF f1.p.remainLen = 0 /\ f1.p.m_code = U32Zero
        THEN g = [f1 EXCEPT !.status = "MaybeFinishedWithoutMark", !.ret = TRUE]
        ELSE IF mode = "Any"
        THEN g = [f1 EXCEPT !.status = "NotFinished", !.ret = TRUE]
        ELSE IF f1.p.remainLen # 0
        THEN g.exc /\ ~g.ret /\ g.p = f1.p
        ELSE OnlyEndMark(a, g, inp, limit)

RECURSIVE CoreLoopAtLimit(_, _, _, _)
CoreLoopAtLimit(f, inp, limit, mode) ==
    IF f.ret \/ f.exc \/ f.p.remainLen = kMatchSpecLenStart THEN TRUE
    ELSE \E f1 \in {CoreFlush(f, inp)}, a \in {AttemptFrame(f, inp, limit, mode)},
            g \in {CoreTurn(f, inp, limit, mode)} :
            /\ TurnAtLimit(f1, a, g, inp, limit, mode)
            /\ CoreLoopAtLimit(g, inp, limit, mode)

\* C31: the end conditions of the symbol decoder.  In every turn of the loop
\* of DecoderCore::DecodeToDic that finds, after the bytes of the range
\* coder's start, Dic.pos >= dicLimit: the call returns
\* MaybeFinishedWithoutMark if remainLen and code are 0; else it returns
\* NotFinished in the finish mode Any; else it throws if remainLen is not 0;
\* else it writes nothing, and it goes on only if the next symbol is the end
\* mark: it returns NeedsMoreInput while that symbol is incomplete and throws
\* for any other symbol.
C31_EndConditions ==
    AtLzmaTurn => CoreLoopAtLimit(CoreEnter(CoreObj, CoreLimit, CoreInp), CoreInp,
                                  CoreLimit, CoreMode)

\* the end mark of BadEndMark was accepted at the limit: the chunk's one
\* byte is written, and the symbol decoder has stopped
C31_Witness ==
    /\ pc = "loop" /\ ~errored
    /\ dec.decoder.remainLen = kMatchSpecLenStart
    /\ dec.decoder.m_code = U32Zero
    /\ dec.unpackSize = 0
    /\ Dic.pos = 1 /\ Dic.mem[1] = 97


\* the next turn of the framer's loop calls the symbol decoder, whether the
\* decoder has thrown before or not
AtCoreCall ==
    /\ pc = "loop" /\ ~LoopEnds
    /\ IsDataState(dec.state) /\ ~isUncompressedState(dec)
    /\ ~(dec.state = "LZMA2_STATE_DATA"
           /\ LzmaResetMissing(dec, getLzmaMode(dec) = 3, getLzmaMode(dec) > 0))

\* what the call of DecoderCore::DecodeToDic on p0 gives (q), as far as the
\* end mark goes
EndMarkFinal(p0, q) ==
    /\ AfterEndMark(p0) => (q.p = p0 /\ q.srcLen = 0)
    /\ AfterEndMark(q.p)
         => IF q.p.m_code = U32Zero THEN ~q.exc /\ q.status = "FinishedWithMark"
            ELSE q.exc
    /\ (~q.exc /\ q.status = "FinishedWithMark") => AfterEndMark(q.p)
    /\ (AfterEndMark(q.p) /\ ~AfterEndMark(p0))
         => /\ q.p.m_dic.pos <= CoreLimit
            /\ q.p.processedPos - p0.processedPos = q.p.m_dic.pos - p0.m_dic.pos
            /\ q.p.state < kNumStates

\* C32: the end mark is final.  A call of DecoderCore::DecodeToDic that leaves
\* remainLen = kMatchSpecLenStart, because it has decoded the end mark or
\* was entered behind it, returns FinishedWithMark if code is 0 and throws
\* if it is not; entered behind the end mark it consumes no input and leaves
\* the whole object as it is; no other call returns FinishedWithMark.  And
\* whatever the caller and the framer do, behind the end mark the object of
\* the symbol decoder stays as it is until InitDicAndState is called for
\* the next chunk.
C32_EndMarkFinal ==
    /\ [](AtCoreCall =>
            \E q \in {CoreDecodeToDic(CoreObj, CoreLimit, CoreInp, CoreMode)} :
                EndMarkFinal(CoreObj, q))
    /\ [][(AfterEndMark(dec.decoder) /\ ~(pc = "loop" /\ dec.state = "LZMA2_STATE_DATA"))
            => dec'.decoder = dec.decoder]_vars

\* behind the end mark of BadEndMarkCode, with code = 1, a call after the
\* throw has thrown again without consuming a byte
C32_Witness ==
    /\ pc = "idle" /\ exc = "BadStream" /\ errored
    /\ AfterEndMark(dec.decoder)
    /\ dec.decoder.m_code = <<0, 1>>
    /\ Len(src) > 1 /\ srcLen = 0
    /\ entry.pos = 1 /\ Dic.pos = 1 /\ dicLimit > 1



(***************************************************************************)
(* The start of the range coder.  The callers of SpecSave on chunks whose  *)
(* first five bytes of data come in every split; ref keeps the stream, so  *)
(* that what the decoder holds can be compared with the bytes it was given *)
(***************************************************************************)
FlushStreams == {StreamLits, StreamOverlap, StreamCont, StreamNewProp, StreamCopyLzma,
                 BadRcInit}

InitFlush ==
    /\ \E c \in Configs : prop = c[1] /\ dec = Decoder2(c[1], c[2])
    /\ rest \in FlushStreams
    /\ ref = [stream |-> rest, at |-> 0]
    /\ pc = "idle"
    /\ dicLimit = 0
    /\ src = <<>>
    /\ finishMode = "Any"
    /\ srcLen = 0
    /\ status = "NotSpecified"
    /\ exc = "none"
    /\ entry = [mem |-> dec.decoder.m_dic.mem, pos |-> 0]
    /\ errored = FALSE
    /\ nCalls = 0
    /\ nResets = 0

SpecFlush == InitFlush /\ [][NextSave]_vars

\* the offsets in the stream s, from the chunk at the offset at on, where
\* the data of an LZMA chunk starts
RECURSIVE DataStarts(_, _)
DataStarts(s, at) ==
    IF at + 3 > Len(s) \/ s[at + 1] = CONTROL_EOF THEN {}
    ELSE IF s[at + 1] < CONTROL_LZMA
    THEN DataStarts(s, at + 3 + s[at + 2] * 256 + s[at + 3] + 1)
    ELSE IF at + 5 > Len(s) THEN {}
    ELSE LET h == IF (s[at + 1] \div 32) % 4 >= 2 THEN 6 ELSE 5
         IN  {at + h} \cup DataStarts(s, at + h + s[at + 4] * 256 + s[at + 5] + 1)

\* the bytes of the range coder's start that the next call of the symbol
\* decoder has at hand: those kept and those handed to it
FlushBytes == CoreObj.tempBuf \o CoreInp

\* the call q of the symbol decoder on p0, which is still to read the
\* range coder's start from the bytes B; f1 is the frame after CoreFlush
FlushDone(p0, B, f1, q) ==
    IF Len(B) < RC_INIT_SIZE
    THEN /\ ~q.exc /\ q.status = "NeedsMoreInput"
         /\ q.srcLen = Len(CoreInp)
         /\ q.p = [p0 EXCEPT !.tempBuf = B, !.tempBufSize = Len(B)]
    ELSE /\ f1.srcLen = RC_INIT_SIZE - p0.tempBufSize
         /\ f1.p.m_dic = p0.m_dic /\ f1.p.processedPos = p0.processedPos
         /\ f1.p.m_probs = p0.m_probs /\ f1.p.state = p0.state /\ f1.p.reps = p0.reps
         /\ IF B[1] # 0
            THEN /\ f1.exc /\ q.exc
                 /\ q.p.m_dic = p0.m_dic /\ q.p.processedPos = p0.processedPos
                 /\ q.p.needFlush
            ELSE /\ ~f1.exc /\ ~f1.ret
                 /\ f1.p.m_code = <<B[2] * 256 + B[3], B[4] * 256 + B[5]>>
                 /\ B[2] < 128
                      => ToInt(f1.p.m_code) = ((B[2] * 256 + B[3]) * 256 + B[4]) * 256 + B[5]
                 /\ f1.p.m_range = U32Max
                 /\ ~f1.p.needFlush /\ f1.p.tempBufSize = 0
                 /\ ~q.exc => (q.srcLen >= f1.srcLen /\ ~q.p.needFlush)

\* in the data of an LZMA chunk, before the range coder has started: the
\* bytes kept are the first bytes of the chunk's data, and they are all the
\* framer has consumed of it
FlushPending ==
    (IsDataState(dec.state) /\ ~isUncompressedState(dec) /\ ~errored
     /\ dec.state = "LZMA2_STATE_DATA_CONT" /\ dec.decoder.needFlush)
        => /\ dec.decoder.tempBufSize < RC_INIT_SIZE
           /\ \E d \in DataStarts(ref.stream, 0) :
                 /\ Consumed = d + dec.decoder.tempBufSize
                 /\ dec.decoder.tempBuf = SubSeq(ref.stream, d + 1, Consumed)

\* C33: the start of the range coder.  The first call of the symbol decoder
\* in an LZMA chunk finds needFlush set and no byte kept.  While needFlush
\* is set, a call that has fewer than 5 bytes with those kept returns
\* NeedsMoreInput, keeps them all and changes nothing else; the bytes kept
\* are the first bytes of the chunk's data in the stream.  A call that has
\* the 5 bytes consumes just the missing ones before any symbol: it throws
\* if the first is not 0, and else sets code to the big-endian value of
\* bytes 2..5 and range to 0xFFFFFFFF, with the dictionary, processedPos,
\* the counters, state and reps as they were.
C33_RangeCoderStart ==
    /\ FlushPending
    /\ (AtLzmaTurn /\ dec.state = "LZMA2_STATE_DATA")
          => (CoreObj.needFlush /\ CoreObj.tempBufSize = 0 /\ CoreObj.tempBuf = <<>>
              /\ Consumed \in DataStarts(ref.stream, 0))
    /\ (AtLzmaTurn /\ CoreObj.needFlush)
          => FlushDone(CoreObj, FlushBytes,
                       CoreFlush(CoreEnter(CoreObj, CoreLimit, CoreInp), CoreInp),
                       CoreDecodeToDic(CoreObj, CoreLimit, CoreInp, CoreMode))

\* the fifth byte of the data of StreamLits was handed alone: the range
\* coder has started, and no symbol is decoded yet
C33_Witness ==
    /\ pc = "idle" /\ exc = "none" /\ status = "NeedsMoreInput"
    /\ ref.stream = StreamLits
    /\ Len(src) = 1 /\ srcLen = 1
    /\ Len(ref.stream) - Len(rest) = 11
    /\ ~dec.decoder.needFlush
    /\ dec.decoder.m_code = <<48 * 256 + 152, 124 * 256>>
    /\ dec.decoder.m_range = U32Max
    /\ dec.decoder.processedPos = 0 /\ Dic.pos = 0



(***************************************************************************)
(* The symbols one by one.  The callers of SpecEnd on streams that hold a  *)
(* literal in each of the 12 states, simple matches, reps of each of the   *)
(* four distances, short reps and the end mark; the walk below visits      *)
(* every symbol that a call of the symbol decoder decodes (L the locals of *)
(* DecodeReal before the symbol, L1 after it).                             *)
(***************************************************************************)
\* 'a' 'b', match (distance 2), 'c' 'd' 'e', rep of rep0, 'f' 'g' 'h', short
\* rep, 'i' 'j' 'k', match (3), match (2), 'l', match (1), rep of rep1, 'm',
\* match (3), short rep, 'n', match (1), rep of rep2, rep of rep3, short rep:
\* the literals are decoded in the states 0 0 7 4 1 8 5 2 9 6 3 10 11 11
StreamStates == <<224, 0, 36, 0, 33, 93, 0, 48, 152, 156, 4, 198, 114, 195, 100, 243,
                  32, 151, 28, 168, 145, 243, 209, 177, 134, 146, 11, 246, 80, 146,
                  27, 164, 184, 12, 27, 170, 34, 241, 32, 0, 0>>
SymbolStreams == {StreamStates, StreamReps, StreamRepAfterReset, StreamOverlap, StreamCopyLzma,
                  BadEndMark, BadEndMarkCode, BadDistance}
SymbolConfigs == {<<0, 3>>, <<0, 40>>}

InitSymbols ==
    /\ \E c \in SymbolConfigs : prop = c[1] /\ dec = Decoder2(c[1], c[2])
    /\ rest \in SymbolStreams
    /\ pc = "idle"
    /\ dicLimit = 0
    /\ src = <<>>
    /\ finishMode = "Any"
    /\ srcLen = 0
    /\ status = "NotSpecified"
    /\ exc = "none"
    /\ entry = [mem |-> dec.decoder.m_dic.mem, pos |-> 0]
    /\ errored = FALSE
    /\ nCalls = 0
    /\ nResets = 0
    /\ ref = NoRef

SpecSymbols == InitSymbols /\ [][NextEnd]_vars

\* the bits that choose the kind of the symbol decoded from L: IsMatch, IsRep,
\* IsRepG0, IsRepG1, IsRepG2
KindIsMatch(L, e) ==
    GET_BIT([L EXCEPT !.short = FALSE], e.inp,
            IsMatch + Shl(L.state, kNumPosBitsMax) + PosState(L, e))
KindIsRep(L, e) == GET_BIT(KindIsMatch(L, e), e.inp, IsRep + L.state)
KindIsRepG0(L, e) == GET_BIT(KindIsRep(L, e), e.inp, IsRepG0 + L.state)
KindIsRepG1(L, e) == GET_BIT(KindIsRepG0(L, e), e.inp, IsRepG1 + L.state)
KindIsRepG2(L, e) == GET_BIT(KindIsRepG1(L, e), e.inp, IsRepG2 + L.state)

\* the kind of the symbol that takes L to L1 without a throw; a rep is named
\* by the index of the distance it selects
SymbolKind(L, L1, e) ==
    IF KindIsMatch(L, e).bit = 0 THEN "literal"
    ELSE IF KindIsRep(L, e).bit = 0 THEN (IF L1.brk THEN "endmark" ELSE "match")
    ELSE IF KindIsRepG0(L, e).bit = 0 THEN (IF L1.short THEN "shortrep" ELSE "rep0")
    ELSE IF KindIsRepG1(L, e).bit = 0 THEN "rep1"
    ELSE IF KindIsRepG2(L, e).bit = 0 THEN "rep2"
    ELSE "rep3"

Reps(L) == <<L.rep0, L.rep1, L.rep2, L.rep3>>

\* the state after a literal decoded in the state s
LiteralState(s) == IF s < 4 THEN 0 ELSE IF s < 10 THEN s - 3 ELSE s - 6
\* the same as "s - min(s, 3) if s < 4, s - 3 otherwise"
LiteralStateMinus3(s) == IF s < 4 THEN s - Min(s, 3) ELSE s - 3

\* the states a symbol of the kind k may leave, decoded in the state s
RepKinds == {"rep0", "rep1", "rep2", "rep3"}
StatesAfter(k, s) ==
    CASE k = "literal" -> 0..(kNumLitStates - 1)
      [] k = "match" -> {7, 10}
      [] k \in RepKinds -> {8, 11}
      [] k = "shortrep" -> {9, 11}
      [] k = "endmark" -> {s}

\* the distance of index i (0..3) of R moved to the front, those before it
\* shifted down by one, those after it as they are
RepPromoted(R, i) == <<R[i + 1]>> \o SubSeq(R, 1, i) \o SubSeq(R, i + 2, 4)

\* the reps a symbol of the kind k leaves, from the reps R, d being the
\* distance decoded by a simple match
RepsAfter(k, R, d) ==
    CASE k = "match" -> <<ToInt(d) + 1, R[1], R[2], R[3]>>
      [] k = "rep0" -> RepPromoted(R, 0)
      [] k = "rep1" -> RepPromoted(R, 1)
      [] k = "rep2" -> RepPromoted(R, 2)
      [] k = "rep3" -> RepPromoted(R, 3)
      [] k \in {"literal", "shortrep", "endmark"} -> R

\* how often v is in the sequence R, and the values in R
Count(R, v) == Cardinality({i \in 1..Len(R) : R[i] = v})
Values(R) == {R[i] : i \in 1..Len(R)}

\* the index that is r places before the index j of a window of size bytes
Back(j, r, size) == IF j < r THEN j - r + size ELSE j - r

\* the n bytes from p on of the window mem1 are copied from r places back in
\* the window mem0, one at a time in ascending order: the byte i is the one
\* that was r places before it when it was written, which is the byte i - r
\* of the copy for i >= r and a byte of mem0 before that; for r < n the
\* copy repeats the r bytes before p
CopyDone(mem0, mem1, size, p, n, r) ==
    /\ \A i \in 0..(n - 1) :
          MemAt(mem1, size, p + i)
            = IF i >= r THEN MemAt(mem1, size, p + i - r)
              ELSE MemAt(mem0, size, Back(p + i, r, size))
    /\ r < n => \A i \in 0..(n - 1) :
                   MemAt(mem1, size, p + i) = MemAt(mem0, size, Back(p + (i % r), r, size))
    /\ \A j \in 0..(size - 1) : (j < p \/ j >= p + n) => MemAt(mem1, size, j) = MemAt(mem0, size, j)

\* what is stated under the name c of the bytes that WriteRem(limit) writes on p
WriteRemHolds(c, p, limit) ==
    (c = "Copy" /\ MatchPending(p) /\ WriteRem(p, limit).ub = "none")
        => CopyDone(p.m_dic.mem, WriteRem(p, limit).m_dic.mem, p.m_dic.size, p.m_dic.pos,
                    WriteRem(p, limit).m_dic.pos - p.m_dic.pos, p.reps[1])

\* what is stated of one symbol under the name c
SymbolHolds(c, L, L1, e) ==
    L1.exc \/
    CASE c = "LiteralState" ->
            SymbolKind(L, L1, e) = "literal" => L1.state = LiteralState(L.state)
      [] c = "LiteralStateMinus3" ->
            SymbolKind(L, L1, e) = "literal" => L1.state = LiteralStateMinus3(L.state)
      [] c = "Copy" ->
            (SymbolKind(L, L1, e) \in RepKinds \cup {"match", "shortrep"} /\ L1.ub = "none")
                => CopyDone(L.mem, L1.mem, e.dicBufSize, L.dicPos, L1.dicPos - L.dicPos,
                            L1.rep0)
      [] c = "StateOfKind" ->
            L1.state \in StatesAfter(SymbolKind(L, L1, e), L.state)
      [] c = "RepsOfKind" ->
            /\ Reps(L1) = RepsAfter(SymbolKind(L, L1, e), Reps(L), L1.dist)
            /\ SymbolKind(L, L1, e) \in RepKinds
                 => \A v \in Values(Reps(L)) \cup Values(Reps(L1)) :
                       Count(Reps(L1), v) = Count(Reps(L), v)

\* the symbols of one call of DecodeReal
RECURSIVE SymbolsHold(_, _, _, _)
SymbolsHold(c, L, e, bufLimit) ==
    \E L1 \in {Symbol(L, e)} :
        /\ SymbolHolds(c, L, L1, e)
        /\ (~L1.exc /\ ~L1.brk /\ L1.dicPos < e.limit /\ L1.buf < bufLimit)
             => SymbolsHold(c, L1, e, bufLimit)

\* the turns of DecodeReal2(limit, bufLimit) on p
RECURSIVE Real2Holds(_, _, _, _, _)
Real2Holds(c, p, inp, limit, bufLimit) ==
    /\ SymbolsHold(c, DecodeRealLocals(p), DecodeRealEnv(p, inp, Limit2(p, limit)), bufLimit)
    /\ \E r \in {DecodeReal(p, inp, Limit2(p, limit), bufLimit)} :
          ~r.exc =>
             /\ WriteRemHolds(c, SetCheckDicSize(r.p), limit)
             /\ \E r2 \in {DecodeReal2Rest(r, limit)} :
                   (r2.p.m_dic.pos < limit /\ r2.p.buf < bufLimit
                    /\ r2.p.remainLen < kMatchSpecLenStart)
                       => Real2Holds(c, r2.p, inp, limit, bufLimit)

\* the call of DecodeReal2 in the attempt a, if it makes one
AttemptHolds(c, a, inp, limit) ==
    AttemptDecodes(a, inp) =>
        Real2Holds(c, [a.p EXCEPT !.buf = AttemptFrom(a)], AttemptBytes(a, inp), limit,
                   AttemptBufLimit(a, inp))

\* the turns of the loop of the core's DecodeToDic from the frame f on
RECURSIVE CoreLoopHolds(_, _, _, _, _)
CoreLoopHolds(c, f, inp, limit, mode) ==
    IF f.ret \/ f.exc \/ f.p.remainLen = kMatchSpecLenStart THEN TRUE
    ELSE /\ AttemptHolds(c, AttemptFrame(f, inp, limit, mode), inp, limit)
         /\ CoreLoopHolds(c, CoreTurn(f, inp, limit, mode), inp, limit, mode)

\* every symbol of the call of the core that the next turn makes, behind the
\* rest of a match that the call writes first
SymbolsOfTurn(c) ==
    AtLzmaTurn => /\ WriteRemHolds(c, CoreObj, CoreLimit)
                  /\ CoreLoopHolds(c, CoreEnter(CoreObj, CoreLimit, CoreInp), CoreInp,
                                   CoreLimit, CoreMode)

\* C34: literal state update.  A literal decoded in the state s, for every s
\* in 0..11, leaves the state 0 if s < 4, s - 3 if 4 <= s < 10 and s - 6 if
\* s >= 10.
C34_LiteralState == SymbolsOfTurn("LiteralState")

\* C34 as it is stated: the state after a literal is s - min(s, 3) if s < 4
\* and s - 3 otherwise, also for s = 10 and s = 11
C34_LiteralStateMinus3 == SymbolsOfTurn("LiteralStateMinus3")

\* StreamStates up to the literal 'l', which was decoded in the state 10,
\* behind two matches, and has left the state 4
C34_Witness ==
    /\ pc = "idle" /\ exc = "none" /\ ~errored
    /\ dec.decoder.processedPos = 21
    /\ SubSeq(Dic.mem, 17, 21) = <<105, 106, 105, 106, 108>>
    /\ dec.decoder.state = 4
    /\ dec.decoder.remainLen = 0

\* C35: the LZMA state.  Once the state is initialised, 0 <= state < 12 in
\* every state of the decoder, and after every symbol decoded without a
\* throw: a literal leaves a state below 7, a simple match 7 or 10, a rep
\* match 8 or 11, a short rep 9 or 11, and the end mark the state it was
\* decoded in; the rest of a match written by WriteRem leaves the state too.
C35_StateInvariant ==
    /\ dec.decoder.reps # <<0, 0, 0, 0>> => dec.decoder.state \in 0..(kNumStates - 1)
    /\ AtLzmaTurn => WriteRem(CoreObj, CoreLimit).state = CoreObj.state
    /\ SymbolsOfTurn("StateOfKind")

\* StreamStates up to its last short rep, decoded behind a rep: state 11
C35_Witness ==
    /\ pc = "idle" /\ exc = "none" /\ ~errored
    /\ dec.decoder.processedPos = 37
    /\ dec.decoder.state = 11
    /\ dec.decoder.remainLen = 0
    /\ SubSeq(Dic.mem, 29, 37) = <<109, 110, 110, 110, 110, 110, 110, 110, 110>>

\* C36: the rep history.  A simple match of the decoded distance d leaves
\* the reps (d + 1, old rep0, old rep1, old rep2); a rep match of the index i
\* leaves old rep i in rep0, old rep0..rep(i-1) one place down and the reps
\* behind i as they were, a permutation of the old reps; a literal, a short
\* rep, the end mark and the rest of a match written by WriteRem leave the
\* four reps as they were.
C36_RepHistory ==
    /\ AtLzmaTurn => WriteRem(CoreObj, CoreLimit).reps = CoreObj.reps
    /\ SymbolsOfTurn("RepsOfKind")

\* StreamStates up to its rep of rep3 (the symbol before the last): the reps
\* (2, 1, 3, 1) left by the rep of rep2 before it have become (1, 2, 1, 3)
C36_Witness ==
    /\ pc = "idle" /\ exc = "none" /\ ~errored
    /\ dec.decoder.processedPos = 36
    /\ dec.decoder.state = 11
    /\ dec.decoder.remainLen = 0
    /\ dec.decoder.reps = <<1, 2, 1, 3>>



(***************************************************************************)
(* The window.  Two callers that wrap Dic.pos, turn by turn: DecodeToBuf   *)
(* of a BufDecoder2, whose for loop wraps Dic.pos at its top and then      *)
(* calls DecodeToDic, and the loop of the Tester, which does the same on a *)
(* Decoder2 with a dictionary buffer of dicSize bytes and the limit        *)
(* Dic.size.  ref holds the locals of the caller: outSize, destLen and     *)
(* dest of DecodeToBuf, the input the call was handed and has not consumed *)
(* (left), srcLen, and wrapped: the last turn has wrapped Dic.pos.         *)
(* pc is "buf" or "test" between the calls of the caller, "top" at the top *)
(* of DecodeToBuf's loop, "loop" inside DecodeToDic, "idle" behind it.     *)
(***************************************************************************)
\* dicSize - 1 bytes, then an LZMA chunk of mode 2: the literals 'x' (the
\* last byte of the window) and 'y', a match of distance 2 and length 3,
\* a match of distance 1 and length 4, a match of distance dicSize, length 2
WinOverlap == FarFill(FarDicSize - 1)
              \o <<192, 0, 10, 0, 11, 93, 0, 60, 30, 93, 6, 33, 33, 104, 248, 232, 16, 0, 0>>
WindowStreams == {FarCross, WinOverlap}
SmallStreams == {StreamLits, StreamMatch, StreamOverlap, StreamCopy}
\* the values m_dic.size of a BufDecoder2 may hold besides dicSize
SmallSizes == {1, 3}
inBufSize == 4096

InitWindow ==
    /\ prop = 0
    /\ \/ /\ dec = BufDecoder2(0, FarDicSize) /\ rest \in WindowStreams /\ pc = "buf"
       \/ /\ \E uninit \in SmallSizes : dec = BufDecoder2(0, uninit)
          /\ rest \in SmallStreams /\ pc = "buf"
       \/ /\ dec = Decoder2(0, FarDicSize) /\ rest \in WindowStreams /\ pc = "test"
    /\ ref = [caller |-> IF pc = "buf" THEN "DecodeToBuf" ELSE "Tester",
              outSize |-> 0, left |-> 0, srcLen |-> 0, destLen |-> 0, dest |-> <<>>,
              mode |-> "Any", wrapped |-> FALSE]
    /\ dicLimit = 0
    /\ src = <<>>
    /\ finishMode = "Any"
    /\ srcLen = 0
    /\ status = "NotSpecified"
    /\ exc = "none"
    /\ entry = [mem |-> dec.decoder.m_dic.mem, pos |-> 0]
    /\ errored = FALSE
    /\ nCalls = 0
    /\ nResets = 0

\* DecodeToBuf(dest, destLen = outSize, src, srcLen = k, mode, status) is entered
WindowCall(k, outSize, mode) ==
    /\ pc = "buf"
    /\ ~errored
    /\ pc' = "top"
    /\ ref' = [caller |-> "DecodeToBuf", outSize |-> outSize, left |-> k, srcLen |-> 0,
               destLen |-> 0, dest |-> <<>>, mode |-> mode, wrapped |-> FALSE]
    /\ UNCHANGED <<dec, dicLimit, src, finishMode, srcLen, status, exc, rest, entry,
                   errored, nCalls, nResets, prop>>

\* DecodeToDic(limit, s, mode) is entered on the object self, which the
\* caller has wrapped
WindowEnter(self, limit, s, mode) ==
    /\ dec' = self
    /\ pc' = "loop"
    /\ dicLimit' = limit
    /\ src' = s
    /\ finishMode' = mode
    /\ srcLen' = 0
    /\ status' = "NotSpecified"
    /\ exc' = "none"
    /\ entry' = [mem |-> self.decoder.m_dic.mem, pos |-> self.decoder.m_dic.pos]
    /\ ref' = [ref EXCEPT !.wrapped = (self # dec)]
    /\ UNCHANGED <<rest, errored, nCalls, nResets, prop>>

\* the top of the for loop of DecodeToBuf, up to the call of DecodeToDic
WindowTop ==
    /\ pc = "top"
    /\ \E self \in {BufWrap(dec)} :
          IF ref.outSize > self.decoder.m_dic.size - self.decoder.m_dic.pos
          THEN WindowEnter(self, self.decoder.m_dic.size, SubSeq(rest, 1, ref.left), "Any")
          ELSE WindowEnter(self, self.decoder.m_dic.pos + ref.outSize,
                           SubSeq(rest, 1, ref.left), ref.mode)

\* the rest of the turn, behind DecodeToDic: nothing of it after a throw
WindowBottom ==
    /\ pc = "idle"
    /\ ref.caller = "DecodeToBuf"
    /\ IF exc # "none" THEN pc' = "buf" /\ ref' = ref
       ELSE /\ ref' = [ref EXCEPT !.left = @ - srcLen,
                                  !.srcLen = @ + srcLen,
                                  !.dest = @ \o SubSeq(Dic.mem, entry.pos + 1, Dic.pos),
                                  !.destLen = @ + (Dic.pos - entry.pos),
                                  !.outSize = @ - (Dic.pos - entry.pos)]
            /\ pc' = IF Dic.pos - entry.pos = 0 \/ ref.outSize - (Dic.pos - entry.pos) = 0
                     THEN "buf" ELSE "top"
    /\ UNCHANGED <<dec, dicLimit, src, finishMode, srcLen, status, exc, rest, entry,
                   errored, nCalls, nResets, prop>>

\* the Tester's loop up to its call of DecodeToDic, k bytes being left in inBuf
TesterTop(k) ==
    /\ pc = "test"
    /\ WindowEnter(BufWrap(dec), BufWrap(dec).decoder.m_dic.size, SubSeq(rest, 1, k), "Any")

\* the rest of the Tester's loop: it ends when the file is at its end or
\* nothing was decoded
TesterBottom ==
    /\ pc = "idle"
    /\ ref.caller = "Tester"
    /\ pc' = IF exc # "none" \/ Len(src) = 0 \/ Dic.pos - entry.pos = 0 THEN "done" ELSE "test"
    /\ UNCHANGED <<dec, dicLimit, src, finishMode, srcLen, status, exc, rest, entry,
                   errored, nCalls, nResets, prop, ref>>

\* what the callers hand to a call: the uncompressed chunk at the head of a
\* stream of WindowStreams at once, with room for all of it, pieces after it;
\* the Tester a buffer of inBufSize bytes, or what is left of one
BufPieces == IF AtFarFill THEN {3 + rest[2] * 256 + rest[3] + 1} ELSE HeaderPieces
WindowOutSizes == IF AtFarFill THEN {rest[2] * 256 + rest[3] + 1} ELSE BufOutSizes
TesterPieces ==
    IF AtFarFill THEN {Min(Len(rest), inBufSize)}
    ELSE {k \in 0..Len(rest) : (k = 0 <=> Len(rest) = 0) /\ (k <= MaxHeaderPiece \/ k = Len(rest))}

NextWindow ==
    \/ \E k \in BufPieces, outSize \in WindowOutSizes, mode \in FinishModes :
          WindowCall(k, outSize, mode)
    \/ WindowTop
    \/ WindowBottom
    \/ \E k \in TesterPieces : TesterTop(k)
    \/ TesterBottom
    \/ LoopExit
    \/ HeaderTurn
    \/ UncompressedTurn
    \/ LzmaTurn

SpecWindow == InitWindow /\ [][NextWindow]_vars

\* C37: the self-overlapping copy.  A match, a rep or a short rep that
\* copies n bytes with rep0 = r from Dic.pos = p on, and the rest of a match
\* that WriteRem writes, leave in Dic[p + i], for every i in 0..n-1, the byte
\* that Dic[(p + i - r) mod Dic.size] held when the byte i was written: the
\* byte i - r of the copy itself for i >= r, the byte of before the copy
\* otherwise; for r < n the copy is the repetition of the r bytes before p;
\* no other byte of the dictionary is changed.  This holds for the copy
\* within the buffer and for the copy whose source wraps at Dic.size.
C37_OverlappingCopy == SymbolsOfTurn("Copy")

\* WinOverlap behind its match of distance 2 and length 3, which was written
\* at Dic.pos = 1 from the source 'x' at the last index of the window and
\* 'y' at index 0: "xyx", the third byte being the first of the copy
C37_Witness ==
    /\ pc = "idle" /\ exc = "none" /\ ~errored
    /\ Dic.size = FarDicSize
    /\ Dic.pos = 4
    /\ dec.decoder.processedPos = FarDicSize + 4
    /\ dec.decoder.reps[1] = 2
    /\ dec.decoder.remainLen = 0
    /\ Dic.mem[FarDicSize] = 120
    /\ SubSeq(Dic.mem, 1, 4) = <<121, 120, 121, 120>>

\* the framer is in the middle of a chunk
MidChunk(self) == IsDataState(self.state) /\ self.unpackSize > 0

\* the step sets Dic.pos back; the step is the top of a turn of the caller's
\* loop, which enters DecodeToDic
PosSetBack == Dic.pos' < Dic.pos
TopOfTurn == pc \in {"top", "test"} /\ pc' = "loop"

\* C40: the wrap of Dic.pos.  In DecodeToBuf, and in the Tester's loop,
\* Dic.pos is set back only from Dic.size to 0 and only at the top of a turn
\* of the caller's loop, before DecodeToDic is entered; nothing else of the
\* decoder changes with it.  During a call of DecodeToDic Dic.pos only grows,
\* up to dicLimit at most.  The wrap is made whenever Dic.pos == Dic.size at
\* the top of a turn, whatever the state of the framer: also in the middle
\* of a chunk (state Data or DataCont with unpackSize > 0).
C40_WrapBetweenCalls ==
    /\ [][PosSetBack => /\ TopOfTurn
                        /\ Dic.pos = Dic.size
                        /\ dec' = [dec EXCEPT !.decoder.m_dic.pos = 0]]_vars
    /\ [][pc = "loop" => (Dic.pos <= Dic.pos' /\ Dic.pos' <= dicLimit)]_vars
    /\ [][(TopOfTurn /\ Dic.pos = Dic.size) => Dic.pos' = 0]_vars

\* C40 as it is stated: Dic.pos is wrapped only between the calls and never
\* while the framer is in the middle of a chunk
C40_WrapNeverMidChunk ==
    [][(Dic.pos = Dic.size /\ Dic.pos' = 0 /\ Dic.size > 0)
          => (TopOfTurn /\ ~MidChunk(dec))]_vars

\* DecodeToBuf on FarCross with a window of dicSize bytes: the first turn of
\* a call has written the 2 bytes of the match of length 5 that the window
\* had room for, the second has wrapped Dic.pos and is inside DecodeToDic,
\* in the middle of the chunk and of the match
C40_Witness ==
    /\ pc = "loop" /\ ~errored
    /\ ref.caller = "DecodeToBuf"
    /\ ref.wrapped
    /\ ref.destLen = 2
    /\ Dic.size = FarDicSize
    /\ Dic.pos = 0
    /\ dec.state = "LZMA2_STATE_DATA_CONT"
    /\ MidChunk(dec)
    /\ MatchPending(dec.decoder)



(***************************************************************************)
(* A probability counter under every sequence of updates.  ref.r is the    *)
(* frame of DecodeReal's locals behind InitStateReal; each turn is one     *)
(* isBit0 on the counter CounterAt, entered with a range of CounterRanges, *)
(* followed by UPDATE_0 or UPDATE_1, whichever the code would choose.      *)
(* pc is "counter" before isBit0 and "bit" behind it.                      *)
(***************************************************************************)
CounterAt == IsRep
\* ranges from 2^24 to 2^32 - 1, and one below 2^24, which isBit0 normalises
CounterRanges == {<<256, 0>>, <<256, 1>>, <<256, 2047>>, <<256, 2048>>, <<32768, 0>>,
                  <<65535, 63488>>, U32Max, <<255, 65535>>}
\* the decoder behind InitStateReal and InitRc on the bytes data
CoderStart(data) ==
    [Decoder2(0, 1) EXCEPT !.decoder = InitRc(InitStateReal(@), data)]

InitCounter ==
    /\ prop = 0
    /\ dec = CoderStart(<<0, 0, 0, 0, 0>>)
    /\ rest = <<>>
    /\ pc = "counter"
    /\ dicLimit = 0
    /\ src = <<>>
    /\ finishMode = "Any"
    /\ srcLen = 0
    /\ status = "NotSpecified"
    /\ exc = "none"
    /\ entry = [mem |-> dec.decoder.m_dic.mem, pos |-> 0]
    /\ errored = FALSE
    /\ nCalls = 0
    /\ nResets = 0
    /\ ref = [r |-> DecodeRealLocals(dec.decoder)]

\* isBit0(probs + CounterAt) with the range rg
CounterIsBit0(rg) ==
    /\ pc = "counter"
    /\ pc' = "bit"
    /\ ref' = [r |-> isBit0([ref.r EXCEPT !.range = rg, !.buf = 0], <<0>>, CounterAt)]
    /\ UNCHANGED <<dec, dicLimit, src, finishMode, srcLen, status, exc, rest, entry,
                   errored, nCalls, nResets, prop>>

\* the counter as the frame u has left it, in the frame of InitCounter
CounterKept(u) ==
    /\ pc' = "counter"
    /\ ref' = [r |-> [DecodeRealLocals(dec.decoder) EXCEPT !.probs = u.probs]]
    /\ UNCHANGED <<dec, dicLimit, src, finishMode, srcLen, status, exc, rest, entry,
                   errored, nCalls, nResets, prop>>

CounterUpdate0 == pc = "bit" /\ CounterKept(UPDATE_0(ref.r, CounterAt))
CounterUpdate1 == pc = "bit" /\ CounterKept(UPDATE_1(ref.r, CounterAt))

NextCounter ==
    \/ \E rg \in CounterRanges : CounterIsBit0(rg)
    \/ CounterUpdate0
    \/ CounterUpdate1

SpecCounter == InitCounter /\ [][NextCounter]_vars

\* the counters looked at behind InitStateReal: the first and the last of the
\* array, the one that is updated, the first of the literal coder
CounterProbes == {0, CounterAt, Literal, calcProbSize(LC_PLUS_LP_MAX) - 1}

\* C38: the probability counters.  Every counter is 1024 behind
\* InitStateReal, and after any sequence of updates p += (2048 - p) >> 5 and
\* p -= p >> 5 it is at least 1 and at most 2^11 - 1 (the updates never
\* leave 31..2017), so that bound = (range >> 11) * p, computed by isBit0
\* with a range of at least 2^24, is above 0 and below range.
C38_CounterInRange ==
    /\ \A i \in CounterProbes :
          ProbAt(InitStateReal(dec.decoder).m_probs, i) = kBitModelTotal \div 2
    /\ ProbAt(ref.r.probs, CounterAt) >= 1
    /\ ProbAt(ref.r.probs, CounterAt) <= kBitModelTotal - 1
    /\ ProbAt(ref.r.probs, CounterAt) \in 31..2017
    /\ (pc = "bit" /\ U32Le(kTopValue, ref.r.range))
          => /\ ref.r.ttt = ProbAt(ref.r.probs, CounterAt)
             /\ U32Lt(U32Zero, ref.r.bound)
             /\ U32Lt(ref.r.bound, ref.r.range)

\* the counter has come down to 31 by updates of the bit 1, and isBit0 has
\* computed the bound 31 * 2^13 from the range 2^24
C38_Witness ==
    /\ pc = "bit"
    /\ ProbAt(ref.r.probs, CounterAt) = 31
    /\ ref.r.range = kTopValue
    /\ ref.r.bound = <<3, 57344>>



(***************************************************************************)
(* The range coder bit by bit.  ref.r is the frame of DecodeReal's locals  *)
(* behind InitStateReal and InitRc; the input (ref.inp) is a pattern of    *)
(* bytes repeated, and the operations follow a schedule (ref.ops) that is  *)
(* repeated too: a bit of the counter CounterAt ("p0") or of the counter   *)
(* IsMatch ("p1"), a direct bit, the NORMALIZE() at the end of DecodeReal. *)
(* pc is "coder" between two operations, "bit" behind isBit0, "direct"     *)
(* behind the NORMALIZE() of a direct bit, "end" behind that of the end.   *)
(* nCalls counts the operations.                                           *)
(***************************************************************************)
MaxBits == 300
CoderPatterns == {<<0>>, <<255>>, <<128>>, <<0, 255>>, <<255, 0, 0>>, <<1, 2, 3>>,
                  <<127, 255, 255, 255, 0>>}
CoderSchedules == {<<"p0">>, <<"direct">>, <<"p0", "p1">>, <<"p0", "direct">>,
                   <<"p0", "p0", "p0", "direct", "p1", "end">>,
                   <<"direct", "direct", "end", "p1">>}
\* the bytes of the pattern pat, repeated
CoderInput(pat) == [i \in 1..(MaxBits + RC_INIT_SIZE) |-> pat[((i - 1) % Len(pat)) + 1]]

InitCoder ==
    /\ prop = 0
    /\ \E pat \in CoderPatterns, ops \in CoderSchedules :
          /\ dec = CoderStart(<<0>> \o SubSeq(CoderInput(pat), 1, RC_INIT_SIZE - 1))
          /\ ref = [r |-> DecodeRealLocals(dec.decoder),
                    inp |-> SubSeq(CoderInput(pat), RC_INIT_SIZE, MaxBits + RC_INIT_SIZE),
                    ops |-> ops, x |-> 0]
    /\ rest = <<>>
    /\ pc = "coder"
    /\ dicLimit = 0
    /\ src = <<>>
    /\ finishMode = "Any"
    /\ srcLen = 0
    /\ status = "NotSpecified"
    /\ exc = "none"
    /\ entry = [mem |-> dec.decoder.m_dic.mem, pos |-> 0]
    /\ errored = FALSE
    /\ nCalls = 0
    /\ nResets = 0

\* the operation that is next in the schedule
CoderOp == ref.ops[(nCalls % Len(ref.ops)) + 1]
CoderReady == pc \in {"coder", "end"} /\ nCalls < MaxBits

\* the step leaves the frame r1, the counter x and the program counter p1,
\* after n more operations
CoderStep(r1, x, p1, n) ==
    /\ ref' = [ref EXCEPT !.r = r1, !.x = x]
    /\ pc' = p1
    /\ nCalls' = nCalls + n
    /\ UNCHANGED <<dec, dicLimit, src, finishMode, srcLen, status, exc, rest, entry,
                   errored, nResets, prop>>

\* isBit0(prob) on one of the two counters
CoderIsBit0 ==
    /\ CoderReady
    /\ CoderOp \in {"p0", "p1"}
    /\ \E x \in {IF CoderOp = "p0" THEN CounterAt ELSE IsMatch} :
          CoderStep(isBit0(ref.r, ref.inp, x), x, "bit", 0)

\* UPDATE_0 or UPDATE_1, by the test code < bound
CoderUpdate == pc = "bit" /\ CoderStep(GET_BIT2(ref.r, ref.x), ref.x, "coder", 1)

\* the NORMALIZE() of a direct bit, and the direct bit
CoderNormalize ==
    CoderReady /\ CoderOp = "direct" /\ CoderStep(NORMALIZE(ref.r, ref.inp), ref.x, "direct", 0)
CoderDirectBit == pc = "direct" /\ CoderStep(DirectBit(ref.r), ref.x, "coder", 1)

\* the NORMALIZE() behind the loop of DecodeReal
CoderEnd ==
    CoderReady /\ CoderOp = "end" /\ CoderStep(NORMALIZE(ref.r, ref.inp), ref.x, "end", 1)

NextCoder ==
    \/ CoderIsBit0
    \/ CoderUpdate
    \/ CoderNormalize
    \/ CoderDirectBit
    \/ CoderEnd

SpecCoder == InitCoder /\ [][NextCoder]_vars

\* C39: the normalisation of the range coder.  range is 2^32 - 1 behind
\* InitRc, and at least 2^24 behind every NORMALIZE(): before every bit
\* decided with a counter, before every direct bit and at the end of
\* DecodeReal; NORMALIZE() shifts by 8 bits once at most, which is enough
\* as range is at least 2^16 when it is entered.
C39_RangeNormalised ==
    /\ nCalls = 0 /\ pc = "coder" => ref.r.range = U32Max
    /\ pc \in {"bit", "direct", "end"} => U32Le(kTopValue, ref.r.range)
    /\ pc = "coder" => U32Le(<<1, 0>>, ref.r.range)
    /\ U32Le(kTopValue, NORMALIZE(ref.r, ref.inp).range)

\* bits of one counter only, which has come down to 31: behind the
\* NORMALIZE() of isBit0, which has read input, the range is between 2^24
\* and 2^25
C39_Witness ==
    /\ pc = "bit"
    /\ ref.ops = <<"p0">>
    /\ ref.r.ttt = 31
    /\ ref.r.buf > 0
    /\ U32Le(kTopValue, ref.r.range)
    /\ U32Lt(ref.r.range, <<512, 0>>)

=============================================================================
